---- MODULE Spec2Model ----
(***************************************************************************)
(* Model of the room servers (room.py) and of the discovery registry       *)
(* (discovery.py) of the text-based multiplayer game.                      *)
(*                                                                         *)
(* A Python string is a sequence of tokens (a token is a word, a number or *)
(* a punctuation mark), so that formatting (str(), "+") and parsing        *)
(* (split, strip, int, find) are computed as the code computes them.       *)
(***************************************************************************)
EXTENDS Integers, Sequences, FiniteSets, TLC

(***************************************************************************)
(* Bounds of the model.                                                    *)
(***************************************************************************)
MaxNames == 2       \* number of symbolic server names of the registry
MaxPlayers == 2     \* longest roster (room.players) explored
MaxCommands == 2    \* number of take, drop and say commands a client types
MaxItems == 2       \* longest item list (room.items) explored

None == <<"None">>  \* Python's None: no token sequence of the model equals it

(***************************************************************************)
(* String helpers: the Python str methods the servers use.                 *)
(***************************************************************************)
RECURSIVE Split(_, _)
\* s.split(sep): the fields between the occurrences of sep (at least one field).
Split(s, sep) ==
    IF s = <<>> THEN <<<<>>>>
    ELSE \* the fields of the rest; the first token opens a field or joins one
         LET rest == Split(Tail(s), sep)
         IN  IF Head(s) = sep THEN <<<<>>>> \o rest
             ELSE <<<<Head(s)>> \o Head(rest)>> \o Tail(rest)

\* s.split(): the words between runs of white space, no empty word.
SplitWS(s) == SelectSeq(Split(s, " "), LAMBDA w : w # <<>>)

RECURSIVE StrJoin(_, _)
\* sep.join(words)
StrJoin(words, sep) ==
    IF words = <<>> THEN <<>>
    ELSE IF Len(words) = 1 THEN words[1]
    ELSE words[1] \o <<sep>> \o StrJoin(Tail(words), sep)

RECURSIVE LStrip(_, _)
LStrip(s, chars) ==
    IF s # <<>> /\ s[1] \in chars THEN LStrip(Tail(s), chars) ELSE s

RECURSIVE RStrip(_, _)
RStrip(s, chars) ==
    IF s # <<>> /\ s[Len(s)] \in chars
    THEN RStrip(SubSeq(s, 1, Len(s) - 1), chars) ELSE s

\* s.strip(chars)
Strip(s, chars) == RStrip(LStrip(s, chars), chars)

\* token `tok` holds `word` as a substring ("DEREGISTER" holds "REGISTER",
\* "essay" holds "say")
Contains(tok, word) ==
    \/ tok = word
    \/ tok = "DEREGISTER" /\ word = "REGISTER"
    \/ tok = "essay" /\ word = "say"

\* s.find(word) != -1, for a word that has no white space in it
Find(s, word) == \E i \in 1..Len(s) : Contains(s[i], word)

(***************************************************************************)
(* Discovery service (discovery.py).                                       *)
(***************************************************************************)
DISCOVERY_SUCCESS == <<"OK">>
DISCOVERY_FAIL == <<"NOTOK">>

\* The symbolic names and the addresses rooms register: room://localhost:<port>
ServerNames == {<<"room" \o ToString(i)>> : i \in 1..MaxNames}
RoomPorts == {5001, 5002}
RoomAddress(port) == <<"room", "://", "localhost", ":", ToString(port)>>
Addresses == {RoomAddress(p) : p \in RoomPorts}

\* The requests as their senders format them.
RegisterMsg(addr, name) == <<"REGISTER", " ">> \o addr \o <<" ">> \o name
DeregisterMsg(name) == <<"DEREGISTER", " ">> \o name
LookupMsg(name) == <<"LOOKUP", " ">> \o name

\* A Python dict is a set of <<key, value>> pairs.
DictHas(d, k) == \E p \in d : p[1] = k
DictGet(d, k) == (CHOOSE p \in d : p[1] = k)[2]

\* d[k] = v without the replacement of an existing key
DictSetKeepOld(d, k, v) == d \cup {<<k, v>>}
\* d[k] = v
DictSet(d, k, v) == {p \in d : p[1] # k} \cup {<<k, v>>}

\* d.pop(k) that forgets to remove
DictPopNothing(d, k) == d
\* d.pop(k), for a key that is present
DictPop(d, k) == {p \in d : p[1] # k}

\* The DEREGISTER branch.
HandleDeregister(map, msg) ==
    LET parsed_message == Split(msg, " ")
    IN  IF Len(parsed_message) < 2                          \* IndexError
        THEN [map |-> map, replies |-> <<DISCOVERY_FAIL>>]
        ELSE IF ~DictHas(map, parsed_message[2])            \* KeyError
        THEN [map |-> map, replies |-> <<DISCOVERY_FAIL>>]
        ELSE [map |-> DictPop(map, parsed_message[2]),
              replies |-> <<DISCOVERY_SUCCESS>>]

\* A REGISTER branch that stores what it got when the name is missing.
HandleRegisterAcceptsShort(map, msg) ==
    LET parsed_message == Split(msg, " ")
    IN  IF Len(parsed_message) < 3
        THEN [map |-> DictSet(map, <<>>, parsed_message[Len(parsed_message)]),
              replies |-> <<DISCOVERY_FAIL>>]
        ELSE [map |-> DictSet(map, parsed_message[3], parsed_message[2]),
              replies |-> <<DISCOVERY_SUCCESS>>]
\* The REGISTER branch.
HandleRegister(map, msg) ==
    LET parsed_message == Split(msg, " ")
    IN  IF Len(parsed_message) < 3                          \* IndexError
        THEN [map |-> map, replies |-> <<DISCOVERY_FAIL>>]
        ELSE [map |-> DictSet(map, parsed_message[3], parsed_message[2]),
              replies |-> <<DISCOVERY_SUCCESS>>]

\* The LOOKUP branch.
HandleLookup(map, msg) ==
    LET parsed_message == Split(msg, " ")
    IN  IF Len(parsed_message) < 2                          \* IndexError
        THEN [map |-> map, replies |-> <<DISCOVERY_FAIL>>]
        ELSE IF ~DictHas(map, parsed_message[2])            \* KeyError
        THEN [map |-> map, replies |-> <<DISCOVERY_FAIL>>]
        ELSE [map |-> map, replies |-> <<DictGet(map, parsed_message[2])>>]

\* The branches tested in the wrong order: REGISTER before DEREGISTER.
DiscoveryHandleRegisterFirst(map, msg) ==
    IF Find(msg, "REGISTER") THEN HandleRegister(map, msg)
    ELSE IF Find(msg, "DEREGISTER") THEN HandleDeregister(map, msg)
    ELSE IF Find(msg, "LOOKUP") THEN HandleLookup(map, msg)
    ELSE [map |-> map, replies |-> <<>>]

\* One turn of the receive loop: the new registry and the datagrams sent back.
DiscoveryHandle(map, msg) ==
    IF Find(msg, "DEREGISTER") THEN HandleDeregister(map, msg)
    ELSE IF Find(msg, "REGISTER") THEN HandleRegister(map, msg)
    ELSE IF Find(msg, "LOOKUP") THEN HandleLookup(map, msg)
    ELSE [map |-> map, replies |-> <<>>]

(***************************************************************************)
(* Room server (room.py).                                                  *)
(***************************************************************************)
OPERATION_SUCCESS == <<"operation_success">>
OPERATION_FAILURE == <<"operation_failure">>
DISCOVERY_SERVER_PORT == 8888

Directions == {"north", "east", "south", "west", "up", "down"}

\* Client endpoints (host, port) as recvfrom reports them; two of them share
\* a port number on different hosts.
ClientPorts == {1, 2}
ClientAddresses == {<<"127.0.0.1", 1>>, <<"127.0.0.1", 2>>, <<"10.0.0.2", 1>>}

\* Display names; one holds the "-" the roster entries are joined with.
PlayerNames == {<<"ann">>, <<"bob", "-", "lee">>}
ItemNames == {<<"apple">>, <<"key">>}
ChatTexts == {<<"hi">>}
\* Chat texts that hold the verb of another command.
CommandTexts == {<<"take", " ", "apple">>, <<"drop", " ", "key">>,
                 <<"exit">>, <<"north">>}
\* An item name that holds "say".
SayItemNames == {<<"essay">>}

\* The datagrams a client sends.
JoinMsg(name) == <<"new_connection", ",">> \o name
SayMsg(text) == <<"say", " ">> \o text
LookMsg == <<"look">>
TakeMsg(item) == <<"take", " ">> \o item
DropMsg(item) == <<"drop", " ">> \o item
ExitMsg(name) == <<"exit", ",">> \o name

\* str(client_address), e.g. ('127.0.0.1', 1)
StrAddress(addr) ==
    <<"(", "'", addr[1], "'", ",", " ", ToString(addr[2]), ")">>

\* int(s) of a port number, which tolerates surrounding white space
ParseInt(s) == CHOOSE n \in ClientPorts : <<ToString(n)>> = Strip(s, {" "})

\* parsed_port of the receive loop
ParsedPort(client_address) ==
    Strip(Strip(Split(StrAddress(client_address), ",")[2], {"(", ")"}), {" "})

\* port_num of a roster entry: address[1].split('-')
PortNum(player) == Split(Split(player, ",")[2], "-")

\* int(port_num[0]) after port_num[0].strip('()')
PlayerPort(player) == ParseInt(Strip(PortNum(player)[1], {"(", ")"}))

\* The roster entry new_connection appends.
PlayerEntry(client_address, name) == StrAddress(client_address) \o <<"-">> \o name

RECURSIVE get_player_name_by_port(_, _)
\* Room.get_player_name_by_port
get_player_name_by_port(players, parsed_port) ==
    IF players = <<>> THEN <<"Player Not Found">>
    ELSE LET port_num == PortNum(Head(players))
         IN  IF parsed_port = ParseInt(Strip(Strip(port_num[1], {"(", ")"}), {" "}))
             THEN port_num[2]
             ELSE get_player_name_by_port(Tail(players), parsed_port)

\* list.remove(x) that removes every element equal to x
ListRemoveAll(list, x) == SelectSeq(list, LAMBDA e : e # x)
RECURSIVE ListRemove(_, _)
\* list.remove(x) for an x that is in the list: the first occurrence goes
ListRemove(list, x) ==
    IF Head(list) = x THEN Tail(list)
    ELSE <<Head(list)>> \o ListRemove(Tail(list), x)

InList(list, x) == \E i \in 1..Len(list) : list[i] = x

\* Room.remove_item that reports success without removing
remove_item_keep(items, item_name) ==
    IF InList(items, item_name)
    THEN [items |-> items, ok |-> TRUE]
    ELSE [items |-> items, ok |-> FALSE]
\* Room.remove_item
remove_item(items, item_name) ==
    IF InList(items, item_name)
    THEN [items |-> ListRemove(items, item_name), ok |-> TRUE]
    ELSE [items |-> items, ok |-> FALSE]

\* Room.add_item
add_item(items, item_name) == Append(items, item_name)

Datagram(to, data) == [to |-> to, data |-> data]

RECURSIVE Broadcast(_, _, _)
\* The notification loop: one datagram to 127.0.0.1:<port> for every roster
\* entry whose port differs from the sender's port.
Broadcast(players, parsed_port, data) ==
    IF players = <<>> THEN <<>>
    ELSE LET port == PlayerPort(Head(players))
         IN  (IF parsed_port # port
              THEN <<Datagram(<<"127.0.0.1", port>>, data)>>
              ELSE <<>>)
             \o Broadcast(Tail(players), parsed_port, data)

\* The endpoint sendto(("", port)) reaches: the empty host is the local host.
LocalEndpoint(port) == <<"127.0.0.1", port>>

RECURSIVE ExitNotices(_)
\* The loop of server_terminate: "exit" to the local port of every entry.
ExitNotices(players) ==
    IF players = <<>> THEN <<>>
    ELSE <<Datagram(LocalEndpoint(PlayerPort(Head(players))), <<"exit">>)>>
         \o ExitNotices(Tail(players))

\* What one turn of the receive loop yields: the room's lists, the datagrams
\* sent in order, and whether an exception escaped the loop.
Outcome(items, players, sends, crashed) ==
    [items |-> items, players |-> players, sends |-> sends, crashed |-> crashed]

\* message.decode().find("new_connection,") != -1
FindNewConnection(msg) ==
    \E i \in 1..(Len(msg) - 1) : msg[i] = "new_connection" /\ msg[i + 1] = ","

\* The new_connection branch.
HandleJoin(rm, msg, client_address) ==
    LET connection == Split(msg, ",")
        new_player == PlayerEntry(client_address, connection[2])
        players == Append(rm.players, new_player)
        join_message == connection[2] \o <<" entered the room.">>
    IN  Outcome(rm.items, players,
                Broadcast(players, ParseInt(ParsedPort(client_address)), join_message),
                FALSE)

\* A say branch that enters an unknown sender into the roster.
HandleSayJoins(rm, msg, client_address) ==
    LET parsed_port == ParseInt(ParsedPort(client_address))
        i_msg == Tail(SplitWS(msg))
        name == get_player_name_by_port(rm.players, parsed_port)
        new_message == name \o <<" said \"">> \o StrJoin(i_msg, " ") \o <<"\".">>
    IN  Outcome(rm.items,
                IF name = <<"Player Not Found">>
                THEN Append(rm.players, PlayerEntry(client_address, name))
                ELSE rm.players,
                Broadcast(rm.players, parsed_port, new_message), FALSE)
\* The say branch.
HandleSay(rm, msg, client_address) ==
    LET parsed_port == ParseInt(ParsedPort(client_address))
        i_msg == Tail(SplitWS(msg))
        name == get_player_name_by_port(rm.players, parsed_port)
        new_message == name \o <<" said \"">> \o StrJoin(i_msg, " ") \o <<"\".">>
    IN  Outcome(rm.items, rm.players,
                Broadcast(rm.players, parsed_port, new_message), FALSE)

RECURSIVE ItemLines(_)
ItemLines(items) ==
    IF items = <<>> THEN <<>>
    ELSE <<"\t">> \o Head(items) \o <<"\n">> \o ItemLines(Tail(items))

\* Room.__str__
RoomStr(name, desc, items) ==
    name \o <<"\n\n">> \o desc \o <<"\n\n", "In this room, there are:\n">>
    \o (IF items = <<>> THEN <<"The room is empty.\n">> ELSE ItemLines(items))

\* player.find(s) != -1 for a string s of several tokens
FindStr(text, s) ==
    \E i \in 0..(Len(text) - Len(s)) : SubSeq(text, i + 1, i + Len(s)) = s

RECURSIVE PlayerLines(_, _)
\* The roster lines of look: every entry that does not hold str(client_address).
PlayerLines(players, client_address) ==
    IF players = <<>> THEN <<>>
    ELSE (IF ~FindStr(Head(players), StrAddress(client_address))
          THEN <<"\t">> \o Split(Head(players), "-")[2] \o <<"\n">>
          ELSE <<>>)
         \o PlayerLines(Tail(players), client_address)

ExitLine(dir) ==
    CASE dir = "north" -> <<"A doorway leads away from the room to the north.\n">>
      [] dir = "south" -> <<"A doorway leads away from the room to the south.\n">>
      [] dir = "east" -> <<"A doorway leads away from the room to the east.\n">>
      [] dir = "west" -> <<"A doorway leads away from the room to the west.\n">>
      [] dir = "up" -> <<"A latch on the roof leads away from the room above.\n">>
      [] dir = "down" -> <<"A latch on the ground leads away from the room below.\n">>

ExitOrder == <<"north", "south", "east", "west", "up", "down">>

RECURSIVE ExitLines(_, _)
ExitLines(nb, dirs) ==
    IF dirs = <<>> THEN <<>>
    ELSE (IF nb[Head(dirs)] # None THEN ExitLine(Head(dirs)) ELSE <<>>)
         \o ExitLines(nb, Tail(dirs))

\* A look branch that lists no exit.
HandleLookNoExits(rm, nb, client_address) ==
    LET room_contents == RoomStr(rm.name, rm.desc, rm.items)
                         \o PlayerLines(rm.players, client_address)
    IN  Outcome(rm.items, rm.players, <<Datagram(client_address, room_contents)>>, FALSE)
\* The look branch.
HandleLook(rm, nb, client_address) ==
    LET room_contents == RoomStr(rm.name, rm.desc, rm.items)
                         \o PlayerLines(rm.players, client_address)
                         \o ExitLines(nb, ExitOrder)
    IN  Outcome(rm.items, rm.players, <<Datagram(client_address, room_contents)>>, FALSE)

\* The take branch.
HandleTake(rm, msg, client_address) ==
    LET pair_input == Split(msg, " ")
    IN  IF Len(pair_input) < 2                                  \* IndexError
        THEN Outcome(rm.items, rm.players,
                     <<Datagram(client_address, OPERATION_FAILURE)>>, FALSE)
        ELSE LET removed == remove_item(rm.items, pair_input[2])
             IN  Outcome(removed.items, rm.players,
                         <<Datagram(client_address,
                                    IF removed.ok THEN OPERATION_SUCCESS
                                    ELSE OPERATION_FAILURE)>>,
                         FALSE)

\* A drop branch that answers a datagram without item as the take branch does.
HandleDropAnswers(rm, msg, client_address) ==
    LET pair_input == Split(msg, " ")
    IN  IF Len(pair_input) < 2
        THEN Outcome(rm.items, rm.players,
                     <<Datagram(client_address, OPERATION_FAILURE)>>, FALSE)
        ELSE Outcome(add_item(rm.items, pair_input[2]), rm.players, <<>>, FALSE)
\* The drop branch; the IndexError of a datagram without item is not caught.
HandleDrop(rm, msg, client_address) ==
    LET pair_input == Split(msg, " ")
    IN  IF Len(pair_input) < 2
        THEN Outcome(rm.items, rm.players, <<>>, TRUE)
        ELSE Outcome(add_item(rm.items, pair_input[2]), rm.players, <<>>, FALSE)

MoveNotice(name, dir) == name \o <<" left the room, heading ", dir, ".\n">>

\* A direction branch that tells the roster and removes the sender before it
\* looks at the neighbor.
HandleMoveLeaveFirst(rm, nb, dir, client_address) ==
    LET parsed_port == ParseInt(ParsedPort(client_address))
        name == get_player_name_by_port(rm.players, parsed_port)
        player_to_remove == PlayerEntry(client_address, name)
        players == IF InList(rm.players, player_to_remove)
                   THEN ListRemove(rm.players, player_to_remove)
                   ELSE rm.players
    IN  Outcome(rm.items, players,
                Broadcast(rm.players, parsed_port, MoveNotice(name, dir))
                \o <<Datagram(client_address,
                              IF nb[dir] = None THEN OPERATION_FAILURE ELSE nb[dir])>>,
                FALSE)

\* A direction branch (north, east, south, west, up, down are alike).
HandleMove(rm, nb, dir, client_address) ==
    IF nb[dir] = None
    THEN Outcome(rm.items, rm.players,
                 <<Datagram(client_address, OPERATION_FAILURE)>>, FALSE)
    ELSE LET parsed_port == ParseInt(ParsedPort(client_address))
             name == get_player_name_by_port(rm.players, parsed_port)
             player_to_remove == PlayerEntry(client_address, name)
             players == IF InList(rm.players, player_to_remove)
                        THEN ListRemove(rm.players, player_to_remove)
                        ELSE rm.players                         \* ValueError
         IN  Outcome(rm.items, players,
                     Broadcast(rm.players, parsed_port, MoveNotice(name, dir))
                     \o <<Datagram(client_address, nb[dir])>>,
                     FALSE)

\* An exit branch that removes every entry of the name, whatever its endpoint.
HandleExitByName(rm, msg, client_address) ==
    LET exit_info == Split(msg, ",")
    IN  IF Len(exit_info) < 2
        THEN Outcome(rm.items, rm.players, <<>>, TRUE)
        ELSE LET parsed_port == ParseInt(ParsedPort(client_address))
                 name == get_player_name_by_port(rm.players, parsed_port)
                 new_message == name \o <<" has left the game completely.\n">>
                 players == SelectSeq(rm.players,
                                LAMBDA p : \A a \in ClientAddresses :
                                               p # PlayerEntry(a, exit_info[2]))
             IN  Outcome(rm.items, players,
                         Broadcast(rm.players, parsed_port, new_message), FALSE)
\* The exit branch; the IndexError of a datagram without "," is not caught.
HandleExit(rm, msg, client_address) ==
    LET exit_info == Split(msg, ",")
    IN  IF Len(exit_info) < 2
        THEN Outcome(rm.items, rm.players, <<>>, TRUE)
        ELSE LET parsed_port == ParseInt(ParsedPort(client_address))
                 player_to_remove == PlayerEntry(client_address, exit_info[2])
                 name == get_player_name_by_port(rm.players, parsed_port)
                 new_message == name \o <<" has left the game completely.\n">>
                 players == IF InList(rm.players, player_to_remove)
                            THEN ListRemove(rm.players, player_to_remove)
                            ELSE rm.players                     \* ValueError
             IN  Outcome(rm.items, players,
                         Broadcast(rm.players, parsed_port, new_message), FALSE)

\* A receive loop that tests for take and drop before say.
RoomHandleTakeFirst(rm, nb, msg, client_address) ==
    IF FindNewConnection(msg) THEN HandleJoin(rm, msg, client_address)
    ELSE IF Find(msg, "take") THEN HandleTake(rm, msg, client_address)
    ELSE IF Find(msg, "drop") THEN HandleDrop(rm, msg, client_address)
    ELSE IF Find(msg, "say") THEN HandleSay(rm, msg, client_address)
    ELSE IF msg = <<"look">> THEN HandleLook(rm, nb, client_address)
    ELSE IF msg \in {<<d>> : d \in Directions}
         THEN HandleMove(rm, nb, msg[1], client_address)
    ELSE IF Find(msg, "exit") THEN HandleExit(rm, msg, client_address)
    ELSE Outcome(rm.items, rm.players, <<>>, FALSE)
\* One turn of the room's receive loop: the first branch that matches.
RoomHandle(rm, nb, msg, client_address) ==
    IF FindNewConnection(msg) THEN HandleJoin(rm, msg, client_address)
    ELSE IF Find(msg, "say") THEN HandleSay(rm, msg, client_address)
    ELSE IF msg = <<"look">> THEN HandleLook(rm, nb, client_address)
    ELSE IF Find(msg, "take") THEN HandleTake(rm, msg, client_address)
    ELSE IF Find(msg, "drop") THEN HandleDrop(rm, msg, client_address)
    ELSE IF msg = <<"north">> THEN HandleMove(rm, nb, "north", client_address)
    ELSE IF msg = <<"east">> THEN HandleMove(rm, nb, "east", client_address)
    ELSE IF msg = <<"south">> THEN HandleMove(rm, nb, "south", client_address)
    ELSE IF msg = <<"west">> THEN HandleMove(rm, nb, "west", client_address)
    ELSE IF msg = <<"up">> THEN HandleMove(rm, nb, "up", client_address)
    ELSE IF msg = <<"down">> THEN HandleMove(rm, nb, "down", client_address)
    ELSE IF Find(msg, "exit") THEN HandleExit(rm, msg, client_address)
    ELSE Outcome(rm.items, rm.players, <<>>, FALSE)

(***************************************************************************)
(* State.                                                                  *)
(***************************************************************************)
VARIABLES
    server_map,   \* discovery.py: the registry, name -> address
    d_last,       \* the request the registry handled last, its replies, and
                  \* the registry and d_dereg as they were before it
    d_expect,     \* history: per name, the address of its latest REGISTER not
                  \* followed by a DEREGISTER of it, else None
    d_dereg,      \* history: the names deregistered since their last REGISTER
    items,        \* room.items
    players,      \* room.players, the roster
    neighbors,    \* north_room .. down_room: direction -> address or None
    room_pc,      \* "running" in the receive loop, "crashed" after an
                  \* exception left it, "deregistering" in server_terminate
                  \* waiting for a datagram, "stopped" after exit(0)
    r_last,       \* the observed turn of the room: the datagram handled, its
                  \* sender, what the room sent, and items and players as
                  \* they were before it
    r_shutdown,   \* the datagrams server_terminate sent, in order
    discovery_pc,    \* the registry process: "off" or "up"
    discovery_inbox, \* the datagrams queued at the registry's socket
    rooms,           \* the room processes of the system, a record each
    clients,         \* the player client processes, a record each
    duplicated       \* the network has delivered a datagram twice

dvars == <<server_map, d_last, d_expect, d_dereg>>
rvars == <<items, players, neighbors, room_pc, r_last, r_shutdown>>
svars == <<discovery_pc, discovery_inbox, rooms, clients, duplicated>>
vars == <<server_map, d_last, d_expect, d_dereg,
          items, players, neighbors, room_pc, r_last, r_shutdown,
          discovery_pc, discovery_inbox, rooms, clients, duplicated>>

room_name == <<"room1">>
description == <<"A plain room.">>

Room == [name |-> room_name, desc |-> description,
         items |-> items, players |-> players]

\* Sequences over S of a length in lo..hi.
SeqsUpTo(S, lo, hi) == UNION {[1..n -> S] : n \in lo..hi}

\* Neighbor tables left by startup: every exit closed, three exits open, all
\* exits open.
NeighborTables ==
    {[d \in Directions |-> None],
     [d \in Directions |-> IF d \in {"north", "east", "up"}
                           THEN RoomAddress(5002) ELSE None],
     [d \in Directions |-> RoomAddress(5002)]}

NoRequest == [msg |-> <<>>, replies |-> <<>>, prev_map |-> {}, prev_dereg |-> {}]
NoDatagram == [msg |-> <<>>, sender |-> <<"127.0.0.1", 1>>, sends |-> <<>>,
               prev_items |-> <<>>, prev_players |-> <<>>]

(***************************************************************************)
(* The discovery service's receive loop, one request per step.             *)
(***************************************************************************)
Serve(msg) ==
    \E out \in {DiscoveryHandle(server_map, msg)} :
        /\ server_map' = out.map
        /\ d_last' = [msg |-> msg, replies |-> out.replies,
                      prev_map |-> server_map, prev_dereg |-> d_dereg]
        /\ UNCHANGED rvars
        /\ UNCHANGED svars

Register(addr, name) ==
    /\ Serve(RegisterMsg(addr, name))
    /\ d_expect' = [d_expect EXCEPT ![name] = addr]
    /\ d_dereg' = d_dereg \ {name}

Deregister(name) ==
    /\ Serve(DeregisterMsg(name))
    /\ d_expect' = [d_expect EXCEPT ![name] = None]
    /\ d_dereg' = d_dereg \cup {name}

Lookup(name) ==
    /\ Serve(LookupMsg(name))
    /\ UNCHANGED <<d_expect, d_dereg>>

\* Requests with missing fields, and a datagram with no verb in it.
\* DEREGISTER with no name, or with an empty one.
NamelessDeregisters == {<<"DEREGISTER">>, <<"DEREGISTER", " ">>}

MalformedRequests ==
    {<<"REGISTER">>, <<"LOOKUP">>, <<"LOOKUP", " ">>}
    \cup NamelessDeregisters
    \cup {<<"REGISTER", " ">> \o a : a \in Addresses}

Malformed(msg) ==
    /\ Serve(msg)
    /\ UNCHANGED <<d_expect, d_dereg>>

UnknownRequests == {<<"PING">>, <<"PING", " ">> \o <<"room1">>}

UnknownVerb(msg) ==
    /\ Serve(msg)
    /\ UNCHANGED <<d_expect, d_dereg>>

(***************************************************************************)
(* The room's receive loop, one datagram per step.                         *)
(***************************************************************************)
\* A run handles any number of datagrams and then one turn under observation,
\* whose datagram, sender, output and prior lists r_last records; every turn
\* of every run is the observed turn of some run.
Receive(msg, client_address) ==
    /\ r_last = NoDatagram
    /\ \E out \in {RoomHandle(Room, neighbors, msg, client_address)} :
           /\ items' = out.items
           /\ players' = out.players
           /\ room_pc' = IF out.crashed THEN "crashed" ELSE "running"
           /\ \E observed \in BOOLEAN :
                  r_last' = IF observed
                            THEN [msg |-> msg, sender |-> client_address,
                                  sends |-> out.sends,
                                  prev_items |-> items, prev_players |-> players]
                            ELSE NoDatagram
    /\ UNCHANGED <<neighbors, r_shutdown>>
    /\ UNCHANGED dvars
    /\ UNCHANGED svars

\* The loop blocked in recvfrom, about to take the next datagram.
Receiving == room_pc = "running"

Join(c, name) ==
    /\ Receiving
    /\ Len(players) < MaxPlayers
    /\ Receive(JoinMsg(name), c)

Say(c, text) ==
    /\ Receiving
    /\ Receive(SayMsg(text), c)

Look(c) ==
    /\ Receiving
    /\ Receive(LookMsg, c)

Take(c, item) ==
    /\ Receiving
    /\ Receive(TakeMsg(item), c)

\* "take" with no item
TakeNothing(c) ==
    /\ Receiving
    /\ Receive(<<"take">>, c)

Drop(c, item) ==
    /\ Receiving
    /\ Len(items) < MaxItems
    /\ Receive(DropMsg(item), c)

\* "drop" with no item
DropNothing(c) ==
    /\ Receiving
    /\ Receive(<<"drop">>, c)

Move(c, dir) ==
    /\ Receiving
    /\ Receive(<<dir>>, c)

Exit(c, name) ==
    /\ Receiving
    /\ Receive(ExitMsg(name), c)

\* "exit" with no ",<name>"
ExitNoName(c) ==
    /\ Receiving
    /\ Receive(<<"exit">>, c)

\* say with the verb of another command in its text
SayCommand(c, text) ==
    /\ Receiving
    /\ Receive(SayMsg(text), c)

\* take or drop of an item whose name holds "say"
TakeSayItem(c, item) ==
    /\ Receiving
    /\ Receive(TakeMsg(item), c)

DropSayItem(c, item) ==
    /\ Receiving
    /\ Receive(DropMsg(item), c)

\* The sender of the datagrams that try the order of the branches, which
\* does not depend on the sender.
DispatchSenders == {<<"127.0.0.1", 1>>}

\* Datagrams in which one verb follows another, and datagrams no branch
\* matches: look and the directions are compared whole.
MixedDatagrams == {<<"take", " ", "drop">>, <<"exit", ",", "take">>}
UnmatchedDatagrams == {<<"look", " ">>, <<"north", " ">>, <<"hello">>}

Mixed(c, msg) ==
    /\ Receiving
    /\ Receive(msg, c)

Unmatched(c, msg) ==
    /\ Receiving
    /\ Receive(msg, c)

\* SIGINT reaches the receive loop: server_terminate sends DEREGISTER for the
\* room's name and waits in recvfrom. (A run ends with an observed turn or
\* with a shutdown.)
Terminate ==
    /\ Receiving
    /\ r_last = NoDatagram
    /\ room_pc' = "deregistering"
    /\ r_shutdown' = <<Datagram(LocalEndpoint(DISCOVERY_SERVER_PORT),
                                DeregisterMsg(room_name))>>
    /\ UNCHANGED <<items, players, neighbors, r_last>>
    /\ UNCHANGED dvars
    /\ UNCHANGED svars

\* A datagram arrives, the registry's reply or any other: it is dropped, the
\* roster is sent the exit notices and the process exits.
TerminateNotify ==
    /\ room_pc = "deregistering"
    /\ r_shutdown' = r_shutdown \o ExitNotices(players)
    /\ room_pc' = "stopped"
    /\ UNCHANGED <<items, players, neighbors, r_last>>
    /\ UNCHANGED dvars
    /\ UNCHANGED svars

(***************************************************************************)
(* The system: the registry, two rooms and player clients are processes     *)
(* with a datagram socket each. A datagram sent to a bound socket joins    *)
(* the socket's queue; one sent to a socket that is not bound is lost.     *)
(***************************************************************************)
Rooms == {"A", "B"}

\* The command lines of the rooms: room A has room B as its east neighbor,
\* room B has no neighbor. The port is the one bind(('', 0)) gives.
Config ==
    [A |-> [name |-> room_name, description |-> description,
            items |-> <<<<"apple">>>>, port |-> 5001,
            args |-> [d \in Directions |->
                          IF d = "east" THEN <<"room2">> ELSE None]],
     B |-> [name |-> <<"room2">>, description |-> <<"A second room.">>,
            items |-> <<<<"key">>>>, port |-> 5002,
            args |-> [d \in Directions |-> None]]]

RoomNames == {Config[r].name : r \in Rooms}

\* The names the rooms look up at startup.
NeighborNames == {Config[r].args[d] : r \in Rooms, d \in Directions} \ {None}

\* The player clients (player.py), by their endpoints, and their display
\* names. The second client runs only where several players are studied.
Players == {LocalEndpoint(1), LocalEndpoint(2)}
PlayerName(c) == IF c = LocalEndpoint(1) THEN <<"ann">> ELSE <<"bob", "-", "lee">>

DiscoveryEndpoint == LocalEndpoint(DISCOVERY_SERVER_PORT)
RoomEndpoint(r) == LocalEndpoint(Config[r].port)

\* Another process that registers a room's name under its own address.
ForeignEndpoint == <<"10.0.0.9", 9>>
ForeignAddress == RoomAddress(5003)

\* A datagram in a socket's queue, with the sender recvfrom reports.
Packet(from, data) == [from |-> from, data |-> data]

\* Of the datagrams `sends` of the sender `from`, those for `endpoint`.
Arrivals(endpoint, sends, from) ==
    LET mine == SelectSeq(sends, LAMBDA s : s.to = endpoint)
    IN  [i \in 1..Len(mine) |-> Packet(from, mine[i].data)]

\* A room whose socket takes datagrams only once it serves.
RoomBoundInLoop(pc) == pc \in {"loop", "deregistering"}
\* The process states in which the socket is bound.
RoomBound(pc) == pc \in {"lookup", "register", "loop", "deregistering"}
ClientBound(pc) == pc \in {"lookup", "wait_look", "wait_move", "wait_take", "idle"}

\* The queues after a step: dq, rms and cls are the queue of the registry
\* and the records of rooms and clients as the step leaves them, and the
\* datagrams `sends` of `from` arrive behind what is queued.
Deliver(dq, rms, cls, sends, from) ==
    /\ discovery_inbox' =
           IF discovery_pc = "up"
           THEN dq \o Arrivals(DiscoveryEndpoint, sends, from) ELSE <<>>
    /\ rooms' = [r \in Rooms |->
           [rms[r] EXCEPT !.inbox =
                IF RoomBound(rms[r].pc)
                THEN @ \o Arrivals(RoomEndpoint(r), sends, from) ELSE <<>>]]
    /\ clients' = [c \in Players |->
           [cls[c] EXCEPT !.inbox =
                IF ClientBound(cls[c].pc)
                THEN @ \o Arrivals(c, sends, from) ELSE <<>>]]

\* What the system's steps leave alone: the single room and the histories
\* of the registry's requests.
sysframe == <<d_last, d_expect, d_dereg,
              items, players, neighbors, room_pc, r_last, r_shutdown>>

\* A room process before it starts. Beside the program's state (pc, step,
\* nb, items, players, inbox) the record keeps histories: the datagrams sent
\* outside the receive loop, the reply taken for each LOOKUP, the reply
\* taken for REGISTER, whether a datagram was handled in the loop, and the
\* registry as it was at the start, and the rooms started before it. args
\* are the neighbor names of the command line.
OffRoom(r) ==
    [pc |-> "off", step |-> 0, nb |-> [d \in Directions |-> None],
     args |-> Config[r].args,
     items |-> Config[r].items, players |-> <<>>, inbox |-> <<>>,
     sent |-> <<>>, answers |-> [d \in Directions |-> None],
     reg_reply |-> None, served |-> FALSE, start_map |-> {}, before |-> {}]

\* The order of the get_server_address calls.
StartupOrder == <<"north", "east", "south", "west", "up", "down">>

RECURSIVE NextConfigured(_, _)
\* The first position from i on whose direction has a neighbor name; for a
\* direction without one get_server_address returns None and sends nothing.
NextConfigured(args, i) ==
    IF i > Len(StartupOrder) THEN i
    ELSE IF args[StartupOrder[i]] # None THEN i
    ELSE NextConfigured(args, i + 1)

\* get_server_address that takes any reply as an address
ResolvedAddressAny(message_back) == message_back
\* What get_server_address returns for the reply it received.
ResolvedAddress(message_back) ==
    IF message_back = DISCOVERY_FAIL THEN None ELSE message_back

\* The startup of room r from position i of the order to its next recvfrom:
\* the LOOKUP of the next configured neighbor, or REGISTER after the last.
StartupFrom(r, rec, i) ==
    LET k == NextConfigured(rec.args, i)
        more == k <= Len(StartupOrder)
        request == IF more THEN LookupMsg(rec.args[StartupOrder[k]])
                   ELSE RegisterMsg(RoomAddress(Config[r].port), Config[r].name)
    IN  [rec EXCEPT !.pc = IF more THEN "lookup" ELSE "register",
                    !.step = IF more THEN k ELSE 0,
                    !.sent = Append(@, Datagram(DiscoveryEndpoint, request))]

\* A room that takes every reply to REGISTER as a success
RegistrationFailedNever(message) == FALSE
\* message.decode() == DISCOVERY_FAIL after REGISTER
RegistrationFailed(message) == message = DISCOVERY_FAIL

\* The datagram a step of the startup or of server_terminate sent last.
LastSent(rec) == <<rec.sent[Len(rec.sent)]>>

\* The room process starts: it binds its socket and runs to its first
\* recvfrom.
RoomStart(r) ==
    /\ rooms[r].pc = "off"
    /\ \E rec \in {StartupFrom(r,
                       [rooms[r] EXCEPT
                            !.start_map = server_map,
                            !.before = {q \in Rooms : rooms[q].pc # "off"}],
                       1)} :
           Deliver(discovery_inbox, [rooms EXCEPT ![r] = rec], clients,
                   LastSent(rec), RoomEndpoint(r))
    /\ UNCHANGED <<server_map, discovery_pc, duplicated>>
    /\ UNCHANGED sysframe

\* recvfrom of get_server_address returns: the neighbor's address or None is
\* stored and the startup goes on.
RoomLookupReply(r) ==
    /\ rooms[r].pc = "lookup"
    /\ rooms[r].inbox # <<>>
    /\ LET message_back == Head(rooms[r].inbox).data
           d == StartupOrder[rooms[r].step]
       IN  \E rec \in {StartupFrom(r,
                          [rooms[r] EXCEPT !.inbox = Tail(@),
                                           !.nb[d] = ResolvedAddress(message_back),
                                           !.answers[d] = message_back],
                          rooms[r].step + 1)} :
               Deliver(discovery_inbox, [rooms EXCEPT ![r] = rec], clients,
                       LastSent(rec), RoomEndpoint(r))
    /\ UNCHANGED <<server_map, discovery_pc, duplicated>>
    /\ UNCHANGED sysframe

\* recvfrom after REGISTER returns: on NOTOK server_terminate(0, 0) sends
\* DEREGISTER and waits, else the room enters its receive loop.
RoomRegisterReply(r) ==
    /\ rooms[r].pc = "register"
    /\ rooms[r].inbox # <<>>
    /\ LET message == Head(rooms[r].inbox).data
           rec == [rooms[r] EXCEPT !.inbox = Tail(@), !.reg_reply = message]
       IN  IF RegistrationFailed(message)
           THEN \E out \in {[rec EXCEPT
                                !.pc = "deregistering",
                                !.sent = Append(@, Datagram(DiscoveryEndpoint,
                                                  DeregisterMsg(Config[r].name)))]} :
                    Deliver(discovery_inbox, [rooms EXCEPT ![r] = out], clients,
                            LastSent(out), RoomEndpoint(r))
           ELSE Deliver(discovery_inbox,
                        [rooms EXCEPT ![r] = [rec EXCEPT !.pc = "loop"]],
                        clients, <<>>, RoomEndpoint(r))
    /\ UNCHANGED <<server_map, discovery_pc, duplicated>>
    /\ UNCHANGED sysframe

\* One turn of the receive loop of room r.
RoomServe(r) ==
    /\ rooms[r].pc = "loop"
    /\ rooms[r].inbox # <<>>
    /\ LET pkt == Head(rooms[r].inbox)
           rm == [name |-> Config[r].name, desc |-> Config[r].description,
                  items |-> rooms[r].items, players |-> rooms[r].players]
       IN  \E out \in {RoomHandle(rm, rooms[r].nb, pkt.data, pkt.from)} :
               Deliver(discovery_inbox,
                       [rooms EXCEPT ![r] =
                            [@ EXCEPT !.inbox = Tail(@),
                                      !.items = out.items,
                                      !.players = out.players,
                                      !.served = TRUE,
                                      !.pc = IF out.crashed THEN "crashed" ELSE "loop"]],
                       clients, out.sends, RoomEndpoint(r))
    /\ UNCHANGED <<server_map, discovery_pc, duplicated>>
    /\ UNCHANGED sysframe

\* SIGINT reaches room r in its receive loop: server_terminate sends
\* DEREGISTER and waits in recvfrom.
RoomSignal(r) ==
    /\ rooms[r].pc = "loop"
    /\ \E rec \in {[rooms[r] EXCEPT
                       !.pc = "deregistering",
                       !.sent = Append(@, Datagram(DiscoveryEndpoint,
                                         DeregisterMsg(Config[r].name)))]} :
           Deliver(discovery_inbox, [rooms EXCEPT ![r] = rec], clients,
                   LastSent(rec), RoomEndpoint(r))
    /\ UNCHANGED <<server_map, discovery_pc, duplicated>>
    /\ UNCHANGED sysframe

\* recvfrom of server_terminate returns with whatever datagram is next: the
\* roster is sent the exit notices and the process exits.
RoomTerminate(r) ==
    /\ rooms[r].pc = "deregistering"
    /\ rooms[r].inbox # <<>>
    /\ \E notices \in {ExitNotices(rooms[r].players)} :
           Deliver(discovery_inbox,
                   [rooms EXCEPT ![r] = [@ EXCEPT !.pc = "stopped",
                                                  !.sent = @ \o notices]],
                   clients, notices, RoomEndpoint(r))
    /\ UNCHANGED <<server_map, discovery_pc, duplicated>>
    /\ UNCHANGED sysframe

\* A registry that starts with the rooms' entries of an earlier run.
DiscoveryStartRestored ==
    /\ discovery_pc = "off"
    /\ discovery_pc' = "up"
    /\ server_map' = {<<Config[r].name, RoomAddress(Config[r].port)>> : r \in Rooms}
    /\ UNCHANGED <<discovery_inbox, rooms, clients, duplicated>>
    /\ UNCHANGED sysframe
\* The registry process starts, with an empty registry.
DiscoveryStart ==
    /\ discovery_pc = "off"
    /\ discovery_pc' = "up"
    /\ UNCHANGED <<server_map, discovery_inbox, rooms, clients, duplicated>>
    /\ UNCHANGED sysframe

\* A registry that lets only the endpoint whose port is in the registered
\* address deregister a name.
DiscoveryServeOwned ==
    /\ discovery_pc = "up"
    /\ discovery_inbox # <<>>
    /\ LET pkt == Head(discovery_inbox)
           name == Split(pkt.data, " ")[2]
           foreign == /\ Find(pkt.data, "DEREGISTER")
                      /\ Len(Split(pkt.data, " ")) >= 2
                      /\ DictHas(server_map, name)
                      /\ DictGet(server_map, name) # RoomAddress(pkt.from[2])
       IN  \E out \in {IF foreign
                       THEN [map |-> server_map, replies |-> <<DISCOVERY_FAIL>>]
                       ELSE DiscoveryHandle(server_map, pkt.data)} :
               /\ server_map' = out.map
               /\ Deliver(Tail(discovery_inbox), rooms, clients,
                          [i \in 1..Len(out.replies) |->
                               Datagram(pkt.from, out.replies[i])],
                          DiscoveryEndpoint)
    /\ UNCHANGED <<discovery_pc, duplicated>>
    /\ UNCHANGED sysframe
\* One turn of the registry's receive loop.
DiscoveryServe ==
    /\ discovery_pc = "up"
    /\ discovery_inbox # <<>>
    /\ LET pkt == Head(discovery_inbox)
       IN  \E out \in {DiscoveryHandle(server_map, pkt.data)} :
               /\ server_map' = out.map
               /\ Deliver(Tail(discovery_inbox), rooms, clients,
                          [i \in 1..Len(out.replies) |->
                               Datagram(pkt.from, out.replies[i])],
                          DiscoveryEndpoint)
    /\ UNCHANGED <<discovery_pc, duplicated>>
    /\ UNCHANGED sysframe

\* Another process sends REGISTER for a registered name n, which it takes
\* over (one request at a time).
ForeignRegister(n) ==
    /\ discovery_pc = "up"
    /\ DictHas(server_map, n)
    /\ <<n, ForeignAddress>> \notin server_map
    /\ \A i \in 1..Len(discovery_inbox) : discovery_inbox[i].from # ForeignEndpoint
    /\ discovery_inbox' = Append(discovery_inbox,
                                 Packet(ForeignEndpoint, RegisterMsg(ForeignAddress, n)))
    /\ UNCHANGED <<server_map, discovery_pc, rooms, clients, duplicated>>
    /\ UNCHANGED sysframe

\* The network delivers a reply of the registry to room r a second time
\* (once in a run).
Duplicate(r) ==
    /\ ~duplicated
    /\ RoomBound(rooms[r].pc)
    /\ \E i \in 1..Len(rooms[r].inbox) :
           /\ rooms[r].inbox[i].from = DiscoveryEndpoint
           /\ rooms' = [rooms EXCEPT ![r].inbox = Append(@, rooms[r].inbox[i])]
    /\ duplicated' = TRUE
    /\ UNCHANGED <<server_map, discovery_pc, discovery_inbox, clients>>
    /\ UNCHANGED sysframe

(***************************************************************************)
(* The player client (player.py).                                          *)
(***************************************************************************)
NoReply == [kind |-> "", from |-> DiscoveryEndpoint, data |-> <<>>]

\* A client process before it starts. Beside the program's state (pc,
\* server_address, inbox, the direction typed) the record keeps histories:
\* the number of datagrams sent to the registry, the datagram taken last as
\* the response to a command, whether a move led to the present room, and
\* the number of take, drop and say commands. inventory is player.inventory
\* and typed the item of the take command the client waits on.
OffClient ==
    [pc |-> "off", server |-> None, inbox |-> <<>>, cmd |-> "",
     inventory |-> <<>>, typed |-> <<>>,
     lookups |-> 0, last |-> NoReply, moved |-> FALSE, commands |-> 0]

\* A client that is not part of the deployment.
AbsentClient == [OffClient EXCEPT !.pc = "absent"]

UrlPorts == RoomPorts \cup {5003}

\* urlparse(url) yields a hostname and a port
IsUrl(url) ==
    /\ Len(url) = 5
    /\ url[2] = "://"
    /\ url[4] = ":"
    /\ \E p \in UrlPorts : url[5] = ToString(p)

\* (server_address.hostname, server_address.port) of urlparse(url); the
\* hostname localhost is the local host.
UrlEndpoint(url) == LocalEndpoint(CHOOSE p \in UrlPorts : url[5] = ToString(p))

\* A client that asks the registry again before it joins
ReconnectViaRegistry(c, url) ==
    <<Datagram(DiscoveryEndpoint, LookupMsg(room_name)),
      Datagram(UrlEndpoint(url), JoinMsg(PlayerName(c))),
      Datagram(UrlEndpoint(url), LookMsg)>>
\* What the client sends to the room at an address it was given: its join
\* and a look.
Reconnect(c, url) ==
    <<Datagram(UrlEndpoint(url), JoinMsg(PlayerName(c))),
      Datagram(UrlEndpoint(url), LookMsg)>>

ToDiscovery(sends) ==
    Cardinality({i \in 1..Len(sends) : sends[i].to = DiscoveryEndpoint})

\* A step of client c that leaves its record as rec and sends `sends`.
ClientSend(c, rec, sends) ==
    Deliver(discovery_inbox, rooms,
            [clients EXCEPT ![c] = [rec EXCEPT !.lookups = @ + ToDiscovery(sends)]],
            sends, c)

\* The client starts for the room named n: LOOKUP n, recvfrom.
ClientStart(c, n) ==
    /\ clients[c].pc = "off"
    /\ ClientSend(c, [clients[c] EXCEPT !.pc = "lookup"],
                  <<Datagram(DiscoveryEndpoint, LookupMsg(n))>>)
    /\ UNCHANGED <<server_map, discovery_pc, duplicated>>
    /\ UNCHANGED sysframe

\* recvfrom after LOOKUP returns: on NOTOK disconnect_player fails on the
\* undefined server_address; else the client joins and looks.
ClientConnect(c) ==
    /\ clients[c].pc = "lookup"
    /\ clients[c].inbox # <<>>
    /\ LET message_back == Head(clients[c].inbox).data
           rec == [clients[c] EXCEPT !.inbox = Tail(@)]
       IN  IF message_back = DISCOVERY_FAIL \/ ~IsUrl(message_back)
           THEN ClientSend(c, [rec EXCEPT !.pc = "crashed"], <<>>)
           ELSE ClientSend(c, [rec EXCEPT !.pc = "wait_look",
                                          !.server = message_back],
                           Reconnect(c, message_back))
    /\ UNCHANGED <<server_map, discovery_pc, duplicated>>
    /\ UNCHANGED sysframe

\* recvfrom after look returns: the datagram is printed as the response.
ClientLookReply(c) ==
    /\ clients[c].pc = "wait_look"
    /\ clients[c].inbox # <<>>
    /\ LET pkt == Head(clients[c].inbox)
       IN  ClientSend(c, [clients[c] EXCEPT
                              !.inbox = Tail(@),
                              !.pc = "idle",
                              !.last = [kind |-> "look", from |-> pkt.from,
                                        data |-> pkt.data]],
                      <<>>)
    /\ UNCHANGED <<server_map, discovery_pc, duplicated>>
    /\ UNCHANGED sysframe

\* recvfrom after a direction returns: FAILURE leaves the client where it
\* is, anything else is parsed as the address of the room to join.
ClientMoveReply(c) ==
    /\ clients[c].pc = "wait_move"
    /\ clients[c].inbox # <<>>
    /\ LET pkt == Head(clients[c].inbox)
           rec == [clients[c] EXCEPT
                       !.inbox = Tail(@),
                       !.last = [kind |-> clients[c].cmd, from |-> pkt.from,
                                 data |-> pkt.data]]
       IN  IF pkt.data = OPERATION_FAILURE
           THEN ClientSend(c, [rec EXCEPT !.pc = "idle"], <<>>)
           ELSE IF ~IsUrl(pkt.data)
           THEN ClientSend(c, [rec EXCEPT !.pc = "crashed"], <<>>)
           ELSE ClientSend(c, [rec EXCEPT !.pc = "wait_look",
                                          !.server = pkt.data,
                                          !.moved = TRUE],
                           Reconnect(c, pkt.data))
    /\ UNCHANGED <<server_map, discovery_pc, duplicated>>
    /\ UNCHANGED sysframe

\* The user types look.
ClientLook(c) ==
    /\ clients[c].pc = "idle"
    /\ ClientSend(c, [clients[c] EXCEPT !.pc = "wait_look"],
                  <<Datagram(UrlEndpoint(clients[c].server), LookMsg)>>)
    /\ UNCHANGED <<server_map, discovery_pc, duplicated>>
    /\ UNCHANGED sysframe

\* The user types a direction.
ClientMove(c, dir) ==
    /\ clients[c].pc = "idle"
    /\ ClientSend(c, [clients[c] EXCEPT !.pc = "wait_move", !.cmd = dir],
                  <<Datagram(UrlEndpoint(clients[c].server), <<dir>>)>>)
    /\ UNCHANGED <<server_map, discovery_pc, duplicated>>
    /\ UNCHANGED sysframe

\* disconnect_player: exit,<name>, a drop for every item of the inventory,
\* close, exit(0).
Disconnected(c, rec) ==
    ClientSend(c, [rec EXCEPT !.pc = "gone"],
               <<Datagram(UrlEndpoint(clients[c].server), ExitMsg(PlayerName(c)))>>
               \o [i \in 1..Len(rec.inventory) |->
                       Datagram(UrlEndpoint(clients[c].server),
                                DropMsg(rec.inventory[i]))])

\* The user types exit.
ClientExit(c) ==
    /\ clients[c].pc = "idle"
    /\ Disconnected(c, clients[c])
    /\ UNCHANGED <<server_map, discovery_pc, duplicated>>
    /\ UNCHANGED sysframe

\* process_server_msg: a datagram arrives while the client waits in select;
\* "exit" disconnects the client, anything else is printed.
ClientServerMsg(c) ==
    /\ clients[c].pc = "idle"
    /\ clients[c].inbox # <<>>
    /\ LET message == Head(clients[c].inbox).data
           rec == [clients[c] EXCEPT !.inbox = Tail(@)]
       IN  IF message = <<"exit">>
           THEN Disconnected(c, rec)
           ELSE ClientSend(c, rec, <<>>)
    /\ UNCHANGED <<server_map, discovery_pc, duplicated>>
    /\ UNCHANGED sysframe

\* The user types take <item>: the client sends it and waits in recvfrom.
ClientTake(c, item) ==
    /\ clients[c].pc = "idle"
    /\ clients[c].commands < MaxCommands
    /\ ClientSend(c, [clients[c] EXCEPT !.pc = "wait_take", !.typed = item,
                                        !.commands = @ + 1],
                  <<Datagram(UrlEndpoint(clients[c].server), TakeMsg(item))>>)
    /\ UNCHANGED <<server_map, discovery_pc, duplicated>>
    /\ UNCHANGED sysframe

\* recvfrom after take returns: when the datagram is SUCCESS the item typed
\* joins the inventory, else the client reports that the room has no such
\* item.
ClientTakeReply(c) ==
    /\ clients[c].pc = "wait_take"
    /\ clients[c].inbox # <<>>
    /\ LET pkt == Head(clients[c].inbox)
       IN  ClientSend(c, [clients[c] EXCEPT
                              !.inbox = Tail(@),
                              !.pc = "idle",
                              !.typed = <<>>,
                              !.inventory = IF pkt.data = OPERATION_SUCCESS
                                            THEN Append(@, clients[c].typed)
                                            ELSE @,
                              !.last = [kind |-> "take", from |-> pkt.from,
                                        data |-> pkt.data]],
                      <<>>)
    /\ UNCHANGED <<server_map, discovery_pc, duplicated>>
    /\ UNCHANGED sysframe

\* The user types drop <item> for an item of the inventory: it leaves the
\* inventory and the room is told to add it.
ClientDrop(c, item) ==
    /\ clients[c].pc = "idle"
    /\ clients[c].commands < MaxCommands
    /\ InList(clients[c].inventory, item)
    /\ ClientSend(c, [clients[c] EXCEPT !.inventory = ListRemove(@, item),
                                        !.commands = @ + 1],
                  <<Datagram(UrlEndpoint(clients[c].server), DropMsg(item))>>)
    /\ UNCHANGED <<server_map, discovery_pc, duplicated>>
    /\ UNCHANGED sysframe

\* The user types say <text>: the client sends it and waits for nothing.
ClientSay(c, text) ==
    /\ clients[c].pc = "idle"
    /\ clients[c].commands < MaxCommands
    /\ ClientSend(c, [clients[c] EXCEPT !.commands = @ + 1],
                  <<Datagram(UrlEndpoint(clients[c].server), SayMsg(text))>>)
    /\ UNCHANGED <<server_map, discovery_pc, duplicated>>
    /\ UNCHANGED sysframe

(***************************************************************************)
(* Specifications: a room serving its clients, and the registry serving    *)
(* its requests.                                                           *)
(***************************************************************************)
\* Nothing of the system has started.
SystemOff ==
    /\ discovery_pc = "off"
    /\ discovery_inbox = <<>>
    /\ rooms = [r \in Rooms |-> OffRoom(r)]
    /\ clients = [c \in Players |->
                      IF c = LocalEndpoint(1) THEN OffClient ELSE AbsentClient]
    /\ duplicated = FALSE

\* The registry before any request.
DiscoveryInit ==
    /\ server_map = {}
    /\ d_last = NoRequest
    /\ d_expect = [n \in ServerNames |-> None]
    /\ d_dereg = {}

\* A room that has registered and enters its receive loop: the item list of
\* the command line (at least one item), nobody in the roster.
RoomInit ==
    /\ items \in SeqsUpTo(ItemNames, 1, MaxItems)
    /\ players = <<>>
    /\ neighbors \in NeighborTables
    /\ room_pc = "running"
    /\ r_last = NoDatagram
    /\ r_shutdown = <<>>

Init == RoomInit /\ DiscoveryInit /\ SystemOff

Next ==
    \/ \E c \in ClientAddresses, name \in PlayerNames : Join(c, name)
    \/ \E c \in ClientAddresses, text \in ChatTexts : Say(c, text)
    \/ \E c \in ClientAddresses : Look(c)
    \/ \E c \in ClientAddresses, item \in ItemNames : Take(c, item)
    \/ \E c \in ClientAddresses : TakeNothing(c)
    \/ \E c \in ClientAddresses, item \in ItemNames : Drop(c, item)
    \/ \E c \in ClientAddresses : DropNothing(c)
    \/ \E c \in ClientAddresses, dir \in Directions : Move(c, dir)
    \/ \E c \in ClientAddresses, name \in PlayerNames : Exit(c, name)
    \/ \E c \in ClientAddresses : ExitNoName(c)
    \/ \E c \in DispatchSenders, text \in CommandTexts : SayCommand(c, text)
    \/ \E c \in DispatchSenders, item \in SayItemNames : TakeSayItem(c, item)
    \/ \E c \in DispatchSenders, item \in SayItemNames : DropSayItem(c, item)
    \/ \E c \in DispatchSenders, msg \in MixedDatagrams : Mixed(c, msg)
    \/ \E c \in DispatchSenders, msg \in UnmatchedDatagrams : Unmatched(c, msg)
    \/ Terminate
    \/ TerminateNotify

Spec == Init /\ [][Next]_vars

\* The registry alone, beside a room that receives nothing.
DiscoverySpecInit ==
    /\ DiscoveryInit
    /\ items = <<<<"apple">>>>
    /\ players = <<>>
    /\ neighbors = [d \in Directions |-> None]
    /\ room_pc = "running"
    /\ r_last = NoDatagram
    /\ r_shutdown = <<>>
    /\ SystemOff

DiscoveryNext ==
    \/ \E a \in Addresses, n \in ServerNames : Register(a, n)
    \/ \E n \in ServerNames : Deregister(n)
    \/ \E n \in ServerNames : Lookup(n)
    \/ \E m \in MalformedRequests : Malformed(m)
    \/ \E m \in UnknownRequests : UnknownVerb(m)

DiscoverySpec == DiscoverySpecInit /\ [][DiscoveryNext]_vars

\* The system before any of its processes starts, beside a single room that
\* receives nothing.
SystemInit ==
    /\ SystemOff
    /\ DiscoveryInit
    /\ items = <<<<"apple">>>>
    /\ players = <<>>
    /\ neighbors = [d \in Directions |-> None]
    /\ room_pc = "running"
    /\ r_last = NoDatagram
    /\ r_shutdown = <<>>

\* The steps of the registry, the rooms and the client.
ProcessNext ==
    \/ DiscoveryStart
    \/ DiscoveryServe
    \/ \E r \in Rooms : RoomStart(r)
    \/ \E r \in Rooms : RoomLookupReply(r)
    \/ \E r \in Rooms : RoomRegisterReply(r)
    \/ \E r \in Rooms : RoomServe(r)
    \/ \E r \in Rooms : RoomSignal(r)
    \/ \E r \in Rooms : RoomTerminate(r)
    \/ \E c \in Players, n \in RoomNames : ClientStart(c, n)
    \/ \E c \in Players : ClientConnect(c)
    \/ \E c \in Players : ClientLookReply(c)
    \/ \E c \in Players : ClientMoveReply(c)
    \/ \E c \in Players : ClientLook(c)
    \/ \E c \in Players, dir \in Directions : ClientMove(c, dir)
    \/ \E c \in Players : ClientExit(c)
    \/ \E c \in Players : ClientServerMsg(c)

\* The processes, and another registrant of a neighbor's name.
SystemNext ==
    \/ ProcessNext
    \/ \E n \in NeighborNames : ForeignRegister(n)

SystemSpec == SystemInit /\ [][SystemNext]_vars

\* The processes, each of which goes on when the datagram it waits for in
\* recvfrom is in its socket's queue.
LiveSpec ==
    /\ SystemInit
    /\ [][ProcessNext]_vars
    /\ WF_vars(DiscoveryServe)
    /\ \A r \in Rooms : WF_vars(RoomLookupReply(r))
    /\ \A r \in Rooms : WF_vars(RoomRegisterReply(r))

\* Another deployment: rooms A and B name each other as neighbors, A to its
\* east and B to its west, and A names itself as its north neighbor.
MutualArgs ==
    [A |-> [d \in Directions |->
                IF d = "north" THEN Config["A"].name
                ELSE IF d = "east" THEN Config["B"].name ELSE None],
     B |-> [d \in Directions |->
                IF d = "west" THEN Config["A"].name ELSE None]]

MutualInit ==
    /\ discovery_pc = "off"
    /\ discovery_inbox = <<>>
    /\ rooms = [r \in Rooms |-> [OffRoom(r) EXCEPT !.args = MutualArgs[r]]]
    /\ clients = [c \in Players |->
                      IF c = LocalEndpoint(1) THEN OffClient ELSE AbsentClient]
    /\ duplicated = FALSE
    /\ DiscoveryInit
    /\ items = <<<<"apple">>>>
    /\ players = <<>>
    /\ neighbors = [d \in Directions |-> None]
    /\ room_pc = "running"
    /\ r_last = NoDatagram
    /\ r_shutdown = <<>>

\* The processes of that deployment, started once each from an empty
\* registry.
MutualSpec == MutualInit /\ [][ProcessNext]_vars

\* The system once the registry and both rooms have started, B before A:
\* both rooms are registered and serve, A's east leads to B, and two player
\* clients are about to start.
PlayInit ==
    /\ discovery_pc = "up"
    /\ discovery_inbox = <<>>
    /\ server_map = {<<Config[r].name, RoomAddress(Config[r].port)>> : r \in Rooms}
    /\ rooms =
           [r \in Rooms |->
               [OffRoom(r) EXCEPT
                    !.pc = "loop",
                    !.nb = [d \in Directions |->
                               IF Config[r].args[d] = None THEN None
                               ELSE RoomAddress(Config["B"].port)],
                    !.answers = [d \in Directions |->
                                    IF Config[r].args[d] = None THEN None
                                    ELSE RoomAddress(Config["B"].port)],
                    !.sent = (IF r = "A"
                              THEN <<Datagram(DiscoveryEndpoint,
                                              LookupMsg(Config["B"].name))>>
                              ELSE <<>>)
                             \o <<Datagram(DiscoveryEndpoint,
                                           RegisterMsg(RoomAddress(Config[r].port),
                                                       Config[r].name))>>,
                    !.reg_reply = DISCOVERY_SUCCESS,
                    !.start_map = IF r = "A"
                                  THEN {<<Config["B"].name,
                                          RoomAddress(Config["B"].port)>>}
                                  ELSE {},
                    !.before = IF r = "A" THEN {"B"} ELSE {}]]
    /\ clients = [c \in Players |-> OffClient]
    /\ duplicated = FALSE
    /\ d_last = NoRequest
    /\ d_expect = [n \in ServerNames |-> None]
    /\ d_dereg = {}
    /\ items = <<<<"apple">>>>
    /\ players = <<>>
    /\ neighbors = [d \in Directions |-> None]
    /\ room_pc = "running"
    /\ r_last = NoDatagram
    /\ r_shutdown = <<>>

\* The commands the two players type. Both start in room A and walk east,
\* A's open exit and a closed exit of B; the first takes and drops the
\* apple, the second talks.
PlayDirections == {"east"}
PlayStartNames == {Config["A"].name}
PlayItems == {<<"apple">>}
TakingPlayers == {LocalEndpoint(1)}
TalkingPlayers == {LocalEndpoint(2)}

\* The registry, the serving rooms and the players' commands (look is sent
\* on every join).
PlayNext ==
    \/ DiscoveryServe
    \/ \E r \in Rooms : RoomServe(r)
    \/ \E c \in Players, n \in PlayStartNames : ClientStart(c, n)
    \/ \E c \in Players : ClientConnect(c)
    \/ \E c \in Players : ClientLookReply(c)
    \/ \E c \in Players : ClientMoveReply(c)
    \/ \E c \in Players, dir \in PlayDirections : ClientMove(c, dir)
    \/ \E c \in TakingPlayers, item \in PlayItems : ClientTake(c, item)
    \/ \E c \in Players : ClientTakeReply(c)
    \/ \E c \in TakingPlayers, item \in PlayItems : ClientDrop(c, item)
    \/ \E c \in TalkingPlayers, text \in ChatTexts : ClientSay(c, text)
    \/ \E c \in Players : ClientExit(c)
    \/ \E c \in Players : ClientServerMsg(c)

PlaySpec == PlayInit /\ [][PlayNext]_vars

\* The processes on a network that duplicates a datagram.
DuplicatingNext ==
    \/ ProcessNext
    \/ \E r \in Rooms : Duplicate(r)

DuplicatingSpec == SystemInit /\ [][DuplicatingNext]_vars

(***************************************************************************)
(* Vocabulary of the properties.                                           *)
(***************************************************************************)
\* How many times x occurs in a list.
Count(list, x) == Cardinality({i \in 1..Len(list) : list[i] = x})

\* The positions of a roster that hold an entry of endpoint c.
EntriesOf(roster, c) ==
    {i \in 1..Len(roster) : \E n \in PlayerNames : roster[i] = PlayerEntry(c, n)}

InRoster(roster, c) == EntriesOf(roster, c) # {}

\* The datagrams of the observed turn addressed to endpoint c.
SentTo(c) == {i \in 1..Len(r_last.sends) : r_last.sends[i].to = c}

\* What LOOKUP n is to answer by the history of requests.
ExpectedAnswer(n) == IF d_expect[n] = None THEN DISCOVERY_FAIL ELSE d_expect[n]

(***************************************************************************)
(* Discovery service.                                                      *)
(***************************************************************************)
\* C1: LOOKUP n replies with the address of the latest REGISTER of n that no
\* DEREGISTER of n followed, and NOTOK when there is none; this is the answer
\* in every state, whatever requests on other names were handled since.
C1_LookupFollowsHistory ==
    /\ \A n \in ServerNames :
           DiscoveryHandle(server_map, LookupMsg(n)).replies = <<ExpectedAnswer(n)>>
    /\ \A n \in ServerNames :
           d_last.msg = LookupMsg(n) =>
               /\ d_last.replies = <<ExpectedAnswer(n)>>
               /\ server_map = d_last.prev_map

\* A LOOKUP answered with an address after another name was deregistered.
C1_Witness ==
    \E n \in ServerNames, m \in ServerNames :
        /\ n # m
        /\ d_last.msg = LookupMsg(n)
        /\ d_last.replies # <<DISCOVERY_FAIL>>
        /\ m \in d_dereg

C10_Deregister ==
    /\ \A n \in ServerNames :
           d_last.msg = DeregisterMsg(n) =>
               /\ IF DictHas(d_last.prev_map, n)
                  THEN /\ d_last.replies = <<DISCOVERY_SUCCESS>>
                       /\ server_map = {p \in d_last.prev_map : p[1] # n}
                  ELSE /\ d_last.replies = <<DISCOVERY_FAIL>>
                       /\ server_map = d_last.prev_map
               /\ n \in d_last.prev_dereg => d_last.replies = <<DISCOVERY_FAIL>>
    /\ d_last.msg \in NamelessDeregisters =>
           /\ d_last.replies = <<DISCOVERY_FAIL>>
           /\ server_map = d_last.prev_map

\* A second DEREGISTER of a name while another name stays registered.
C10_Witness ==
    \E n \in ServerNames, m \in ServerNames :
        /\ n # m
        /\ d_last.msg = DeregisterMsg(n)
        /\ n \in d_last.prev_dereg
        /\ DictHas(server_map, m)

(***************************************************************************)
(* Room server.                                                            *)
(***************************************************************************)
\* C3: take x of a room that holds x is answered SUCCESS and removes one
\* instance of x and nothing else; of a room without x it is answered FAILURE
\* and leaves the items as they were. So of the takes of x that follow each
\* other without a drop, exactly the first k succeed.
C3_TakeOncePerInstance ==
    \A c \in ClientAddresses, x \in ItemNames :
        (r_last.msg = TakeMsg(x) /\ r_last.sender = c) =>
            IF Count(r_last.prev_items, x) > 0
            THEN /\ r_last.sends = <<Datagram(c, OPERATION_SUCCESS)>>
                 /\ Count(items, x) = Count(r_last.prev_items, x) - 1
                 /\ \A y \in ItemNames \ {x} :
                        Count(items, y) = Count(r_last.prev_items, y)
                 /\ Len(items) = Len(r_last.prev_items) - 1
            ELSE /\ r_last.sends = <<Datagram(c, OPERATION_FAILURE)>>
                 /\ items = r_last.prev_items

\* A successful take of one of two instances.
C3_Witness ==
    \E c \in ClientAddresses, x \in ItemNames :
        /\ r_last.msg = TakeMsg(x)
        /\ r_last.sender = c
        /\ Count(r_last.prev_items, x) = 2
        /\ Count(items, x) = 1
        /\ r_last.sends = <<Datagram(c, OPERATION_SUCCESS)>>

\* C4: a say from a roster endpoint sends one chat notice to every other
\* roster endpoint and none to the sender, and changes neither list.
C4_SayReachesTheOthers ==
    \A c \in ClientAddresses, t \in ChatTexts :
        (r_last.msg = SayMsg(t) /\ r_last.sender = c
            /\ InRoster(r_last.prev_players, c)) =>
            /\ \A e \in ClientAddresses \ {c} :
                   InRoster(r_last.prev_players, e) => Cardinality(SentTo(e)) = 1
            /\ SentTo(c) = {}
            /\ players = r_last.prev_players
            /\ items = r_last.prev_items

\* C5: a direction command of a roster endpoint toward a resolved neighbor is
\* answered with the neighbor's address, and leaves the endpoint no entry.
C5_MoveLeavesTheRoster ==
    \A c \in ClientAddresses, d \in Directions :
        (r_last.msg = <<d>> /\ r_last.sender = c /\ neighbors[d] # None
            /\ InRoster(r_last.prev_players, c)) =>
            /\ r_last.sends # <<>>
            /\ r_last.sends[Len(r_last.sends)] = Datagram(c, neighbors[d])
            /\ neighbors[d] \in Addresses
            /\ ~InRoster(players, c)

\* C6: a direction command toward an absent neighbor is answered FAILURE,
\* and sends nothing else and changes neither roster nor items.
C6_ClosedExit ==
    \A c \in ClientAddresses, d \in Directions :
        (r_last.msg = <<d>> /\ r_last.sender = c /\ neighbors[d] = None) =>
            /\ r_last.sends = <<Datagram(c, OPERATION_FAILURE)>>
            /\ players = r_last.prev_players
            /\ items = r_last.prev_items

\* A joined endpoint, with another in the roster, walks into a closed exit.
C6_Witness ==
    \E c \in ClientAddresses, e \in ClientAddresses, d \in Directions :
        /\ c # e
        /\ r_last.msg = <<d>>
        /\ r_last.sender = c
        /\ neighbors[d] = None
        /\ InRoster(players, c)
        /\ InRoster(players, e)

\* C7: an endpoint has at most one roster entry.
C7_OneEntryPerEndpoint ==
    \A c \in ClientAddresses : Cardinality(EntriesOf(players, c)) <= 1

\* The datagrams handled by the drop branch.
DropDatagrams == {DropMsg(x) : x \in ItemNames} \cup {<<"drop">>}

\* C8: a drop datagram, with or without an item, appends one item, sends
\* nothing, and leaves the room in its receive loop.
C8_DropNeverFails ==
    r_last.msg \in DropDatagrams =>
        /\ room_pc = "running"
        /\ r_last.sends = <<>>
        /\ Len(items) = Len(r_last.prev_items) + 1
        /\ \A x \in ItemNames :
               r_last.msg = DropMsg(x) => items = Append(r_last.prev_items, x)

\* C9: exit,<name> of a roster endpoint sends a notice to every other roster
\* endpoint and nothing to the sender, and leaves the endpoint no entry,
\* whatever the name.
C9_ExitLeavesTheRoster ==
    \A c \in ClientAddresses, n \in PlayerNames :
        (r_last.msg = ExitMsg(n) /\ r_last.sender = c
            /\ InRoster(r_last.prev_players, c)) =>
            /\ \A e \in ClientAddresses \ {c} :
                   InRoster(r_last.prev_players, e) => SentTo(e) # {}
            /\ SentTo(c) = {}
            /\ ~InRoster(players, c)

\* The occurrences of the token string s in a text.
Occurrences(text, s) ==
    {i \in 0..(Len(text) - Len(s)) : SubSeq(text, i + 1, i + Len(s)) = s}

\* A line of the look response that lists x.
ListLine(x) == <<"\t">> \o x \o <<"\n">>

\* The observed turn handled a datagram of endpoint c.
Handled(c) == r_last.msg # <<>> /\ r_last.sender = c

\* The observed datagram refers to a roster entry its sender c does not have.
RefersToNoEntry(c) ==
    \/ /\ ~InRoster(r_last.prev_players, c)
       /\ \/ r_last.msg \in {SayMsg(t) : t \in ChatTexts}
          \/ \E d \in Directions : r_last.msg = <<d>> /\ neighbors[d] # None
          \/ r_last.msg \in {ExitMsg(n) : n \in PlayerNames}
    \/ \E n \in PlayerNames :
           /\ r_last.msg = ExitMsg(n)
           /\ ~InList(r_last.prev_players, PlayerEntry(c, n))
    \/ r_last.msg = <<"exit">>

\* C11: a say, a move toward an open exit or an exit of an endpoint without
\* roster entry, an exit under a name the endpoint did not join with, and an
\* exit datagram without name send no failure to the sender and leave the
\* room in its receive loop.
C11_NoEntryNoError ==
    \A c \in ClientAddresses :
        (Handled(c) /\ RefersToNoEntry(c)) =>
            /\ room_pc = "running"
            /\ \A i \in SentTo(c) : r_last.sends[i].data # OPERATION_FAILURE

\* C16: the response to look of endpoint c is one datagram to c that holds
\* the description, a line per item instance, a line with the display name
\* of every roster entry of another endpoint, no line for a name only c
\* joined with, and the line of every open exit and of no closed one; look
\* changes neither roster nor items.
C16_LookShowsTheRoom ==
    \A c \in ClientAddresses :
        (r_last.msg = LookMsg /\ r_last.sender = c) =>
            /\ Len(r_last.sends) = 1
            /\ r_last.sends[1].to = c
            /\ players = r_last.prev_players
            /\ items = r_last.prev_items
            /\ LET data == r_last.sends[1].data
               IN  /\ FindStr(data, description)
                   /\ \A x \in ItemNames :
                          Cardinality(Occurrences(data, ListLine(x))) = Count(items, x)
                   /\ \A n \in PlayerNames :
                          IF \E e \in ClientAddresses \ {c} :
                                 InList(players, PlayerEntry(e, n))
                          THEN FindStr(data, ListLine(n))
                          ELSE ~FindStr(data, ListLine(n))
                   /\ \A d \in Directions :
                          FindStr(data, ExitLine(d)) <=> neighbors[d] # None

\* C17: a datagram other than new_connection adds no roster entry, and one
\* from an endpoint without roster entry leaves the roster as it was.
C17_OnlyJoinAddsEntries ==
    \A c \in ClientAddresses :
        (Handled(c) /\ ~FindNewConnection(r_last.msg)) =>
            /\ \A i \in 1..Len(players) :
                   Count(players, players[i]) <= Count(r_last.prev_players, players[i])
            /\ ~InRoster(r_last.prev_players, c) => players = r_last.prev_players

\* An endpoint without entry, whose port another host's entry holds, sends a
\* command that removes entries: a move toward an open exit, or an exit.
C17_Witness ==
    \E c \in ClientAddresses, e \in ClientAddresses :
        /\ c # e
        /\ c[2] = e[2]
        /\ Handled(c)
        /\ ~InRoster(r_last.prev_players, c)
        /\ InRoster(players, e)
        /\ \/ \E d \in Directions : r_last.msg = <<d>> /\ neighbors[d] # None
           \/ r_last.msg \in {ExitMsg(n) : n \in PlayerNames}

\* The observed turn is an event of endpoint c that the roster is told of: a
\* join, or a move toward an open exit or an exit of a roster endpoint.
FanOutEvent(c) ==
    /\ Handled(c)
    /\ \/ r_last.msg \in {JoinMsg(n) : n \in PlayerNames}
       \/ /\ InRoster(r_last.prev_players, c)
          /\ \/ \E d \in Directions : r_last.msg = <<d>> /\ neighbors[d] # None
             \/ r_last.msg \in {ExitMsg(n) : n \in PlayerNames}

\* C18: on a join, a move toward an open exit and an exit, every endpoint of
\* the roster before the event other than the originator is sent exactly one
\* notice, and the originator none (a move is answered with the address).
C18_FanOut ==
    \A c \in ClientAddresses :
        FanOutEvent(c) =>
            /\ \A e \in ClientAddresses \ {c} :
                   Cardinality(SentTo(e)) =
                       IF InRoster(r_last.prev_players, e) THEN 1 ELSE 0
            /\ \A i \in SentTo(c) : r_last.sends[i].data \in Addresses

\* C20: a REGISTER, DEREGISTER or LOOKUP with missing fields is answered
\* NOTOK, a datagram without verb is not answered, both leave the registry
\* as it was, and the LOOKUP after them is answered as the history demands.
C20_MalformedLeavesRegistry ==
    (d_last.msg \in MalformedRequests \cup UnknownRequests) =>
        /\ d_last.replies =
               IF d_last.msg \in MalformedRequests THEN <<DISCOVERY_FAIL>> ELSE <<>>
        /\ server_map = d_last.prev_map
        /\ \A n \in ServerNames :
               DiscoveryHandle(server_map, LookupMsg(n)).replies = <<ExpectedAnswer(n)>>

\* A REGISTER without name, and a datagram without verb, reach a registry
\* that holds a name.
C20_Witness ==
    /\ server_map # {}
    /\ \/ d_last.msg \in {<<"REGISTER", " ">> \o a : a \in Addresses}
       \/ d_last.msg \in UnknownRequests

\* The exit notices of a shutdown addressed to endpoint e.
NoticesTo(e) ==
    {i \in 2..Len(r_shutdown) : r_shutdown[i] = Datagram(e, <<"exit">>)}

\* C12: a shutdown sends DEREGISTER of the room's name first and nothing else
\* before a datagram arrived; then one exit notice to every endpoint of the
\* roster and nothing to anyone else; then the room has stopped.
C12_ShutdownOrder ==
    /\ room_pc = "deregistering" =>
           r_shutdown = <<Datagram(LocalEndpoint(DISCOVERY_SERVER_PORT),
                                   DeregisterMsg(room_name))>>
    /\ room_pc = "stopped" =>
           /\ r_shutdown[1] = Datagram(LocalEndpoint(DISCOVERY_SERVER_PORT),
                                       DeregisterMsg(room_name))
           /\ \A i \in 2..Len(r_shutdown) :
                  /\ r_shutdown[i].data = <<"exit">>
                  /\ r_shutdown[i].to \in ClientAddresses
                  /\ InRoster(players, r_shutdown[i].to)
           /\ \A e \in ClientAddresses :
                  InRoster(players, e) => Cardinality(NoticesTo(e)) = 1

(***************************************************************************)
(* The system of registry, rooms and client.                               *)
(***************************************************************************)
\* Room r is past the LOOKUPs of its startup.
Resolved(r) ==
    rooms[r].pc \in {"register", "loop", "deregistering", "stopped", "crashed"}

IsLookup(dg) == dg.data[1] = "LOOKUP"
IsRegister(dg) == dg.data[1] = "REGISTER"

\* The neighbor table the replies taken at startup give room r.
StartupTable(r) ==
    [d \in Directions |->
        IF Config[r].args[d] = None \/ rooms[r].answers[d] = DISCOVERY_FAIL
        THEN None ELSE rooms[r].answers[d]]

\* C13: a room sends no LOOKUP after its REGISTER, and by then it has sent
\* the LOOKUP of every configured neighbor; from then on its neighbor table
\* is the one the replies at startup gave (closed where no neighbor is
\* configured or the reply was NOTOK, else the address replied), and so is
\* every answer to a direction command that a client took from it, whatever
\* the registry holds by now.
C13_NeighborsFixedAtStartup ==
    \A r \in Rooms :
        /\ \A i, j \in 1..Len(rooms[r].sent) :
               (IsRegister(rooms[r].sent[i]) /\ IsLookup(rooms[r].sent[j])) => j < i
        /\ Resolved(r) =>
               /\ \A d \in Directions :
                      Config[r].args[d] # None =>
                          \E j \in 1..Len(rooms[r].sent) :
                              rooms[r].sent[j].data = LookupMsg(Config[r].args[d])
               /\ rooms[r].nb = StartupTable(r)
        /\ \A c \in Players, d \in Directions :
               (/\ clients[c].last.kind = d
                /\ clients[c].last.from = RoomEndpoint(r)
                /\ clients[c].last.data # <<"exit">>) =>
                   clients[c].last.data = IF StartupTable(r)[d] = None
                                          THEN OPERATION_FAILURE
                                          ELSE StartupTable(r)[d]

\* Room A answers east with the address it resolved at startup while the
\* registry holds another address for that neighbor's name.
C13_Witness ==
    \E c \in Players :
        /\ rooms["A"].pc = "loop"
        /\ rooms["A"].nb["east"] = RoomAddress(Config["B"].port)
        /\ <<Config["B"].name, ForeignAddress>> \in server_map
        /\ clients[c].last = [kind |-> "east", from |-> RoomEndpoint("A"),
                              data |-> RoomAddress(Config["B"].port)]
        /\ clients[c].pc = "wait_look"

\* Room A keeps east closed after NOTOK while the neighbor has registered.
C13_ClosedWitness ==
    \E c \in Players :
        /\ rooms["A"].pc = "loop"
        /\ rooms["A"].answers["east"] = DISCOVERY_FAIL
        /\ <<Config["B"].name, RoomAddress(Config["B"].port)>> \in server_map
        /\ clients[c].last = [kind |-> "east", from |-> RoomEndpoint("A"),
                              data |-> OPERATION_FAILURE]

\* Room B had registered when room A started.
BFirst ==
    <<Config["B"].name, RoomAddress(Config["B"].port)>> \in rooms["A"].start_map

\* C14: when room B had registered before room A started and is registered
\* still, A has resolved east to B's address; the answer a client takes from
\* the running A to east is that address; and a client that a move has led
\* to the running B, once its look was answered, has sent the registry its
\* one LOOKUP only, is in B's roster, and the response it took to look came
\* from B with B's description.
C14_Handoff ==
    \A c \in Players :
        LET b_address == RoomAddress(Config["B"].port)
        IN  /\ (/\ BFirst
                /\ <<Config["B"].name, b_address>> \in server_map
                /\ Resolved("A")) => rooms["A"].nb["east"] = b_address
            /\ (/\ clients[c].last.kind = "east"
                /\ clients[c].last.from = RoomEndpoint("A")
                /\ rooms["A"].nb["east"] = b_address
                /\ rooms["A"].pc = "loop") =>
                   /\ clients[c].last.data = b_address
                   /\ clients[c].server = b_address
            /\ (/\ clients[c].moved
                /\ clients[c].pc = "idle"
                /\ clients[c].server = b_address
                /\ rooms["B"].pc = "loop") =>
                   /\ clients[c].lookups = 1
                   /\ InList(rooms["B"].players, PlayerEntry(c, PlayerName(c)))
                   /\ clients[c].last.kind = "look" =>
                          /\ clients[c].last.from = RoomEndpoint("B")
                          /\ FindStr(clients[c].last.data, Config["B"].description)

\* B registered first, A resolved it, and the client that joined A has moved
\* east and has B's response to its look.
C14_Witness ==
    \E c \in Players :
        /\ BFirst
        /\ rooms["A"].pc = "loop"
        /\ rooms["B"].pc = "loop"
        /\ clients[c].moved
        /\ clients[c].pc = "idle"
        /\ clients[c].server = RoomAddress(Config["B"].port)
        /\ clients[c].last.kind = "look"
        /\ clients[c].last.from = RoomEndpoint("B")

\* What room r would answer now to the direction d of endpoint c.
MoveAnswer(r, c, d) ==
    LET out == RoomHandle([name |-> Config[r].name, desc |-> Config[r].description,
                           items |-> rooms[r].items, players |-> rooms[r].players],
                          rooms[r].nb, <<d>>, c)
    IN  out.sends[Len(out.sends)].data

\* C15: a room started without neighbor names has every exit closed; the
\* response a client took to look from a running room holds the room's
\* description and the line of exactly the exits toward which the room would
\* answer a move with an address; and the answer a client took to a
\* direction is FAILURE for a closed exit and the address for an open one.
C15_ExitsAsMoves ==
    \A c \in Players, r \in Rooms :
        /\ (Resolved(r) /\ \A d \in Directions : Config[r].args[d] = None) =>
               \A d \in Directions : rooms[r].nb[d] = None
        /\ (clients[c].last.from = RoomEndpoint(r) /\ rooms[r].pc = "loop") =>
               /\ clients[c].last.kind = "look" =>
                      /\ FindStr(clients[c].last.data, Config[r].description)
                      /\ \A d \in Directions :
                             FindStr(clients[c].last.data, ExitLine(d))
                                 <=> MoveAnswer(r, c, d) # OPERATION_FAILURE
               /\ \A d \in Directions :
                      clients[c].last.kind = d =>
                          clients[c].last.data = IF rooms[r].nb[d] = None
                                                 THEN OPERATION_FAILURE
                                                 ELSE rooms[r].nb[d]

\* The client that looked room B up and joined it has north answered FAILURE
\* by B, which has no neighbor.
C15_Witness ==
    \E c \in Players :
        /\ rooms["B"].pc = "loop"
        /\ ~clients[c].moved
        /\ clients[c].server = RoomAddress(Config["B"].port)
        /\ clients[c].pc = "idle"
        /\ clients[c].last = [kind |-> "north", from |-> RoomEndpoint("B"),
                              data |-> OPERATION_FAILURE]

\* C19: a room sends REGISTER once at most; when the reply it took was NOTOK
\* the next and last datagram it sent is DEREGISTER of its name, it waits in
\* server_terminate or has stopped, and it has handled no player datagram.
C19_RegistrationFailureIsFatal ==
    \A r \in Rooms :
        LET sent == rooms[r].sent
        IN  /\ Cardinality({i \in 1..Len(sent) : IsRegister(sent[i])}) <= 1
            /\ rooms[r].reg_reply = DISCOVERY_FAIL =>
                   /\ rooms[r].pc \in {"deregistering", "stopped"}
                   /\ ~rooms[r].served
                   /\ Len(sent) >= 2
                   /\ IsRegister(sent[Len(sent) - 1])
                   /\ sent[Len(sent)] = Datagram(DiscoveryEndpoint,
                                                 DeregisterMsg(Config[r].name))

\* A room took NOTOK for its REGISTER and has stopped.
C19_Witness ==
    \E r \in Rooms :
        /\ rooms[r].reg_reply = DISCOVERY_FAIL
        /\ rooms[r].pc = "stopped"

(***************************************************************************)
(* Failure responses, endpoint identity, dispatch.                         *)
(***************************************************************************)
\* The positions of the observed turn's datagrams that carry FAILURE.
FailuresSent ==
    {i \in 1..Len(r_last.sends) : r_last.sends[i].data = OPERATION_FAILURE}

\* The observed turn is a direction command toward an absent neighbor.
MoveFailed == \E d \in Directions : r_last.msg = <<d>> /\ neighbors[d] = None

\* The observed turn is a take that names no item, or an item the room did
\* not hold.
TakeFailed ==
    /\ Find(r_last.msg, "take")
    /\ ~Find(r_last.msg, "say")
    /\ LET pair_input == Split(r_last.msg, " ")
       IN  Len(pair_input) < 2 \/ ~InList(r_last.prev_items, pair_input[2])

\* C21 as stated: a FAILURE datagram is sent only for a direction command
\* toward an absent neighbor.
C21_FailureOnlyForMoves == FailuresSent # {} => MoveFailed

\* C21: a turn that sends FAILURE sends that one datagram, to the caller, and
\* it is a direction command toward an absent neighbor or a take that removed
\* nothing; it changes neither list.
C21_FailureOnlyForMovesAndTakes ==
    FailuresSent # {} =>
        /\ r_last.sends = <<Datagram(r_last.sender, OPERATION_FAILURE)>>
        /\ MoveFailed \/ TakeFailed
        /\ items = r_last.prev_items
        /\ players = r_last.prev_players

\* A take of an item the room does not hold is answered FAILURE.
C21_Witness ==
    /\ FailuresSent # {}
    /\ \E x \in ItemNames : r_last.msg = TakeMsg(x)

\* The text begins with the prefix.
StartsWith(text, prefix) ==
    Len(text) >= Len(prefix) /\ SubSeq(text, 1, Len(prefix)) = prefix

\* C23: the endpoint (host, port) is the identity of a player. When two
\* endpoints with the same port on different hosts are in the roster, each
\* with one entry, a say of one sends the other a notice at its own host and
\* port, and every notice of that say begins with the sender's own name.
C23_EndpointIsIdentity ==
    \A c \in ClientAddresses, e \in ClientAddresses,
       n \in PlayerNames, t \in ChatTexts :
        (/\ c # e
         /\ c[2] = e[2]
         /\ r_last.msg = SayMsg(t)
         /\ r_last.sender = c
         /\ InList(r_last.prev_players, PlayerEntry(c, n))
         /\ Cardinality(EntriesOf(r_last.prev_players, c)) = 1
         /\ Cardinality(EntriesOf(r_last.prev_players, e)) = 1) =>
            /\ Cardinality(SentTo(e)) = 1
            /\ \A i \in 1..Len(r_last.sends) :
                   StartsWith(r_last.sends[i].data, n \o <<" said \"">>)

\* Endpoints c and e are both in the roster before the observed turn, each
\* under the display name n.
SameName(c, e, n) ==
    /\ c # e
    /\ InList(r_last.prev_players, PlayerEntry(c, n))
    /\ InList(r_last.prev_players, PlayerEntry(e, n))

\* The rosters the observed turn may leave when it removes nothing but an
\* entry of endpoint c.
WithoutOneOf(c) ==
    {r_last.prev_players}
    \cup {ListRemove(r_last.prev_players, PlayerEntry(c, m)) :
              m \in {k \in PlayerNames :
                         InList(r_last.prev_players, PlayerEntry(c, k))}}

C24_ExitWitness ==
    \E c \in ClientAddresses, e \in ClientAddresses, n \in PlayerNames :
        /\ SameName(c, e, n)
        /\ r_last.sender = c
        /\ r_last.msg = ExitMsg(n)
        /\ ~InList(players, PlayerEntry(c, n))
        /\ InList(players, PlayerEntry(e, n))

\* The text ends with the suffix.
EndsWith(text, suffix) ==
    /\ Len(text) >= Len(suffix)
    /\ SubSeq(text, Len(text) - Len(suffix) + 1, Len(text)) = suffix

\* The datagrams whose first word is say, take or drop and that hold "say".
SayDatagrams ==
    {SayMsg(t) : t \in ChatTexts \cup CommandTexts}
    \cup {TakeMsg(x) : x \in SayItemNames}
    \cup {DropMsg(x) : x \in SayItemNames}

\* The observed turn was handled as chat and as nothing else: every datagram
\* it sent is a chat notice that quotes the words after the first, both lists
\* are as they were, and the loop goes on.
HandledAsChat ==
    /\ \A i \in 1..Len(r_last.sends) :
           EndsWith(r_last.sends[i].data,
                    <<" said \"">> \o StrJoin(Tail(SplitWS(r_last.msg)), " ")
                    \o <<"\".">>)
    /\ items = r_last.prev_items
    /\ players = r_last.prev_players
    /\ room_pc = "running"

\* C30: a datagram is handled by the first branch that matches it and by no
\* other. A say whose text holds take, drop, exit or a direction, and a take
\* or drop whose item name holds "say", are handled as chat: notices only,
\* and neither items nor roster change. A take that holds drop or exit is
\* handled as a take. A datagram that only begins with look or a direction
\* matches no branch: nothing is sent and nothing changes.
C30_FirstMatchDispatch ==
    /\ r_last.msg \in SayDatagrams => HandledAsChat
    /\ r_last.msg \in MixedDatagrams =>
           /\ r_last.sends = <<Datagram(r_last.sender, OPERATION_FAILURE)>>
           /\ items = r_last.prev_items
           /\ players = r_last.prev_players
           /\ room_pc = "running"
    /\ r_last.msg \in UnmatchedDatagrams =>
           /\ r_last.sends = <<>>
           /\ items = r_last.prev_items
           /\ players = r_last.prev_players
           /\ room_pc = "running"

\* "say take apple" in a room that holds an apple, with another endpoint in
\* the roster: the other is sent the chat notice and the apple stays.
C30_Witness ==
    /\ r_last.msg = SayMsg(<<"take", " ", "apple">>)
    /\ InList(items, <<"apple">>)
    /\ r_last.sends # <<>>
    /\ InRoster(players, r_last.sender)

\* "take essay" and "drop essay" sent as chat to another endpoint.
C30_SayItemWitness ==
    /\ r_last.msg \in {TakeMsg(x) : x \in SayItemNames}
                      \cup {DropMsg(x) : x \in SayItemNames}
    /\ r_last.sends # <<>>

(***************************************************************************)
(* The registry among the processes.                                       *)
(***************************************************************************)
\* The queue of the socket bound at endpoint e, among the rooms rms and the
\* clients cls.
Inbox(rms, cls, e) ==
    IF e \in Players THEN cls[e].inbox
    ELSE IF \E r \in Rooms : RoomEndpoint(r) = e
    THEN rms[CHOOSE r \in Rooms : RoomEndpoint(r) = e].inbox
    ELSE <<>>

\* The step takes the datagram at the head of the registry's queue.
RegistryTakes(data) ==
    /\ discovery_inbox # <<>>
    /\ Head(discovery_inbox).data = data
    /\ Len(discovery_inbox') = Len(discovery_inbox) - 1

\* The socket at endpoint e is bound.
Bound(e) ==
    \/ e \in Players /\ ClientBound(clients[e].pc)
    \/ \E r \in Rooms : RoomEndpoint(r) = e /\ RoomBound(rooms[r].pc)

\* The step sends the reply to the sender of the datagram it took: it joins
\* the sender's queue when the sender's socket is still bound.
RegistryReplies(reply) ==
    LET e == Head(discovery_inbox).from
    IN  Inbox(rooms', clients', e) =
            IF Bound(e)
            THEN Append(Inbox(rooms, clients, e), Packet(DiscoveryEndpoint, reply))
            ELSE <<>>

\* C28: DEREGISTER of a registered name removes the entry and is answered
\* OK whoever sends it and whatever address the entry holds, the address of
\* another registrant included; and LOOKUP of a name without entry is
\* answered NOTOK.
C28_DeregisterWithoutOwner ==
    [][\A n \in RoomNames :
           /\ (RegistryTakes(DeregisterMsg(n)) /\ DictHas(server_map, n)) =>
                  /\ ~DictHas(server_map', n)
                  /\ RegistryReplies(DISCOVERY_SUCCESS)
           /\ (RegistryTakes(LookupMsg(n)) /\ ~DictHas(server_map, n)) =>
                  /\ server_map' = server_map
                  /\ RegistryReplies(DISCOVERY_FAIL)]_vars

\* Room B registered its name, another process registered the name after
\* it (room A was given that process's address at its start), B was shut
\* down and its DEREGISTER answered: the name has no entry, and the client
\* that asked for it has taken NOTOK.
C28_Witness ==
    /\ rooms["A"].answers["east"] = ForeignAddress
    /\ rooms["B"].pc = "stopped"
    /\ ~DictHas(server_map, Config["B"].name)
    /\ \E c \in Players : clients[c].pc = "crashed" /\ clients[c].lookups = 1

\* B's DEREGISTER is next in the registry's queue while the entry of B's
\* name holds the other process's address.
C28_TakeoverWitness ==
    /\ discovery_inbox # <<>>
    /\ Head(discovery_inbox) = Packet(RoomEndpoint("B"),
                                      DeregisterMsg(Config["B"].name))
    /\ <<Config["B"].name, ForeignAddress>> \in server_map

(***************************************************************************)
(* Start order and topology.                                               *)
(***************************************************************************)
\* Room r has started, and no other room had when it did.
StartedFirst(r) == rooms[r].pc # "off" /\ rooms[r].before = {}

\* The directions in which room r names room q as its neighbor.
Toward(r, q) == {d \in Directions : rooms[r].args[d] = Config[q].name}

\* The direction of the first LOOKUP room r sends.
FirstLookup(r) == StartupOrder[NextConfigured(rooms[r].args, 1)]

\* The exits that rooms name each other for are never both open, and the
\* exit of a room toward itself is closed.
NeverBothOpen ==
    /\ \A r \in Rooms, q \in Rooms :
           r # q => \A d \in Toward(r, q), e \in Toward(q, r) :
                        rooms[r].nb[d] = None \/ rooms[q].nb[e] = None
    /\ \A r \in Rooms : \A d \in Toward(r, r) : rooms[r].nb[d] = None

C29_LateLookupWitness ==
    /\ StartedFirst("A")
    /\ rooms["A"].pc = "loop"
    /\ rooms["B"].pc = "loop"
    /\ rooms["A"].nb["east"] = RoomAddress(Config["B"].port)
    /\ rooms["B"].nb["west"] = None

(***************************************************************************)
(* Blocking receives.                                                      *)
(***************************************************************************)
\* Room r waits in a recvfrom of its startup.
InStartup(r) == rooms[r].pc \in {"lookup", "register"}

\* The request room r waits on was lost: nothing is queued at its socket
\* and the registry's queue holds nothing of it.
RequestLost(r) ==
    /\ InStartup(r)
    /\ rooms[r].inbox = <<>>
    /\ \A i \in 1..Len(discovery_inbox) : discovery_inbox[i].from # RoomEndpoint(r)

Registered(r) == <<Config[r].name, RoomAddress(Config[r].port)>> \in server_map

\* C22: a room blocks in receives without timeout. A room in its startup
\* whose request was not lost reaches its command loop, and a room in its
\* loop is registered. A room whose request was lost stays in that receive
\* of its startup and has served no command. A room in server_terminate
\* sends nothing and does not stop while no datagram is in its queue: it
\* stops by taking one.
C22_BlockingReceives ==
    /\ \A r \in Rooms : (InStartup(r) /\ ~RequestLost(r)) ~> (rooms[r].pc = "loop")
    /\ [](\A r \in Rooms : rooms[r].pc = "loop" => Registered(r))
    /\ [](\A r \in Rooms : RequestLost(r) => ~rooms[r].served /\ ~Registered(r))
    /\ [][\A r \in Rooms :
              /\ RequestLost(r) => RequestLost(r)' /\ rooms[r]' = rooms[r]
              /\ rooms[r].pc = "deregistering" =>
                     IF rooms[r].inbox = <<>>
                     THEN /\ rooms[r].pc' = "deregistering"
                          /\ rooms[r].sent' = rooms[r].sent
                     ELSE \/ rooms[r].pc' = "deregistering"
                             /\ rooms[r].sent' = rooms[r].sent
                          \/ rooms[r].pc' = "stopped"]_vars

\* Room A, started before the registry, hangs at its LOOKUP while the
\* registry runs and room B, started after it, serves.
C22_Witness ==
    /\ discovery_pc = "up"
    /\ RequestLost("A")
    /\ rooms["A"].pc = "lookup"
    /\ rooms["B"].pc = "loop"
    /\ Registered("B")

\* Room B hangs at its REGISTER.
C22_RegisterWitness ==
    /\ discovery_pc = "up"
    /\ RequestLost("B")
    /\ rooms["B"].pc = "register"

\* A room with a player in its roster waits in server_terminate with
\* nothing in its queue, its DEREGISTER not yet handled.
C22_ShutdownWitness ==
    \E r \in Rooms :
        /\ rooms[r].pc = "deregistering"
        /\ rooms[r].inbox = <<>>
        /\ rooms[r].players # <<>>

(***************************************************************************)
(* Several players.                                                        *)
(***************************************************************************)
\* The datagram is a response to look: a room's name and description.
IsLookResponse(data) ==
    \E r \in Rooms :
        /\ StartsWith(data, Config[r].name)
        /\ FindStr(data, Config[r].description)

\* C26: the datagram a client takes while it waits for the response to its
\* command is that response: SUCCESS or FAILURE for take, FAILURE or an
\* address for a direction, the room's contents for look, and it comes from
\* the socket of a room.
C26_RepliesMatch ==
    \A c \in Players :
        LET reply == clients[c].last
        IN  reply.kind # "" =>
                /\ \E r \in Rooms : reply.from = RoomEndpoint(r)
                /\ reply.kind = "take" =>
                       reply.data \in {OPERATION_SUCCESS, OPERATION_FAILURE}
                /\ reply.kind \in Directions =>
                       reply.data = OPERATION_FAILURE \/ IsUrl(reply.data)
                /\ reply.kind = "look" => IsLookResponse(reply.data)

\* No datagram is queued anywhere and no client waits for one.
Quiescent ==
    /\ discovery_inbox = <<>>
    /\ \A r \in Rooms : rooms[r].inbox = <<>>
    /\ \A c \in Players : clients[c].inbox = <<>>
    /\ \A c \in Players : clients[c].pc \in {"off", "idle", "gone", "crashed"}

\* How many instances of item x the rooms and the running clients hold.
Held(x) ==
    LET ra == Count(rooms["A"].items, x)
        rb == Count(rooms["B"].items, x)
        inv(c) == IF clients[c].pc = "idle" THEN Count(clients[c].inventory, x)
                  ELSE 0
    IN  ra + rb + inv(LocalEndpoint(1)) + inv(LocalEndpoint(2))

\* C25: in every quiescent state the rooms' items and the clients'
\* inventories hold what the rooms started with.
C25_ItemsConserved ==
    Quiescent =>
        \A x \in ItemNames :
            Held(x) = Count(Config["A"].items, x) + Count(Config["B"].items, x)

\* The rooms whose roster holds the entry of client c.
RostersOf(c) ==
    {r \in Rooms : InList(rooms[r].players, PlayerEntry(c, PlayerName(c)))}

\* C27: a client is in the roster of at most one room.
C27_OneRosterAtMost == \A c \in Players : Cardinality(RostersOf(c)) <= 1

====
